---- MODULE Spec2Model ----
(***************************************************************************)
(* parsee: extraction of declaration items from a source unit              *)
(* (parseWithTsMorph), normalisation of type expressions (parseTypeNode)   *)
(* and projection of the item tree by a per-field retention policy         *)
(* (pruneObject and the apply*Options functions).                          *)
(*                                                                         *)
(* JavaScript values are tagged records: Undef, NullV, S(string),          *)
(* N(number), B(boolean), L(array), O(object).  An object is a function    *)
(* from its own keys to values; a key holding undefined is a key of the    *)
(* object (Object.keys lists it) whose value is Undef.                     *)
(***************************************************************************)
EXTENDS Integers, Sequences, FiniteSets, TLC

VARIABLES
  src,       \* the statements of the source unit
  options,   \* the options argument of parseWithTsMorph
  opts,      \* the normalized options of this invocation
  onlyMode,  \* the only-mode flag of this invocation
  pos,       \* the statement the loop is at
  out,       \* the items pushed so far
  pc,        \* "loop" while parseWithTsMorph runs, "done" once it returned
  tree,      \* a built item tree in a caller's hands
  ret,       \* what the last applyParsedItemOptions pass over tree returned
  calls,     \* the number of such passes made
  stack      \* the calls of parseTypeNode or parseWithTsMorph in progress

vars ==
  <<src, options, opts, onlyMode, pos, out, pc, tree, ret, calls, stack>>

-----------------------------------------------------------------------------
(* JavaScript values *)

Undef == [t |-> "undefined"]

NullV == [t |-> "null"]

S(s) == [t |-> "string", v |-> s]

N(n) == [t |-> "number", v |-> n]

B(b) == [t |-> "boolean", v |-> b]

L(seq) == [t |-> "array", v |-> seq]

O(obj) == [t |-> "object", v |-> obj]

EmptyObject == [k \in {} |-> Undef]

\* obj[key] of JavaScript: undefined when the object has no such key
Get(obj, key) == IF key \in DOMAIN obj THEN obj[key] ELSE Undef

\* JavaScript truthiness, as used by `if (item.arguments)`
Truthy(val) ==
  CASE val.t = "undefined" -> FALSE
    [] val.t = "null" -> FALSE
    [] val.t = "boolean" -> val.v
    [] val.t = "number" -> val.v # 0
    [] val.t = "string" -> val.v # ""
    [] OTHER -> TRUE

\* a ?? b
Coalesce(a, b) == IF a.t \in {"undefined", "null"} THEN b ELSE a

\* delete obj[key] for every key outside keep
Restrict(obj, keep) == [k \in (DOMAIN obj) \cap keep |-> obj[k]]

\* { ...obj, key: val }
With(obj, key, val) ==
  [k \in (DOMAIN obj) \cup {key} |-> IF k = key THEN val ELSE obj[k]]

\* array.map(f) is written [i \in DOMAIN seq |-> f(seq[i])] where it is used

\* the parts joined last to first
RECURSIVE Concat_Reversed(_)
Concat_Reversed(seqs) ==
  IF seqs = <<>> THEN <<>> ELSE Concat_Reversed(Tail(seqs)) \o Head(seqs)

RECURSIVE Concat(_)
Concat(seqs) == IF seqs = <<>> THEN <<>> ELSE Head(seqs) \o Concat(Tail(seqs))

-----------------------------------------------------------------------------
(* Projection configuration *)

OptionKeys ==
  { "JSDoc", "Name", "Level", "Decorators", "ExportInfo", "Type", "TypeAst",
    "ItemType", "Location", "Arguments", "TypeParameters", "ReturnType",
    "ReturnTypeAST", "Value", "ValueText", "ValueParsed", "SubType", "Target",
    "Const", "Members", "Accessibility", "Static", "Async", "For", "IsJSType",
    "Default", "DefaultParsed", "Optional", "Readonly", "Abstract", "Private",
    "GetterSetter", "KeyType" }

OptionMode == {"never", "include", "only"}

\* configuration values outside OptionMode: undefined, null, any other value
UndefinedMode == "<undefined>"

NullMode == "<null>"

BogusMode == "sometimes"

Malformed == {UndefinedMode, NullMode, BogusMode}

\* a variant of the defaults in which one field does not default to "include"
DEFAULT_OPTIONS_NoLocation ==
  [k \in OptionKeys |-> IF k = "Location" THEN "never" ELSE "include"]

DEFAULT_OPTIONS == [k \in OptionKeys |-> "include"]

\* A caller's options argument: absent (given = FALSE) or a partial mapping.
NoOptions == [given |-> FALSE, map |-> EmptyObject]

Given(m) == [given |-> TRUE, map |-> m]

normalizeOptions(o) ==
  LET m == IF o.given THEN o.map ELSE EmptyObject
  IN [k \in OptionKeys \cup DOMAIN m |->
        IF k \in DOMAIN m THEN m[k] ELSE DEFAULT_OPTIONS[k]]

\* a variant that looks for "only" at the first field alone
onlyModeOf_FirstField(op) == op["JSDoc"] = "only"

\* Object.values(opts).includes("only")
onlyModeOf(op) == \E k \in DOMAIN op : op[k] = "only"

\* a variant that retains, outside only-mode, the fields marked "include"
\* (or left undefined) rather than all those not marked "never"
shouldInclude_IncludeOnly(op, only, key) ==
  LET raw == op[key]
      v == IF raw \in {UndefinedMode, NullMode} THEN "include" ELSE raw
  IN IF only THEN v = "only" ELSE v = "include"

shouldInclude(op, only, key) ==
  LET raw == op[key]
      v == IF raw \in {UndefinedMode, NullMode} THEN "include" ELSE raw
  IN IF only THEN v = "only" ELSE v # "never"

\* map[key] === null is written NullKey; no map of the program uses it
NullKey == "<null>"

\* a variant that blanks the keys it drops (obj[key] = undefined) instead of
\* deleting them
pruneObject_Blanking(obj, map, op, only) ==
  LET kept(key) ==
        IF key \notin DOMAIN map
          THEN ~only
          ELSE IF map[key] = NullKey
                 THEN TRUE
                 ELSE shouldInclude(op, only, map[key])
  IN [key \in DOMAIN obj |-> IF kept(key) THEN obj[key] ELSE Undef]

\* a variant that leaves the keys absent from its map alone, in only-mode too
pruneObject_MappedKeysOnly(obj, map, op, only) ==
  LET kept(key) ==
        IF key \notin DOMAIN map
          THEN TRUE
          ELSE IF map[key] = NullKey
                 THEN TRUE
                 ELSE shouldInclude(op, only, map[key])
  IN Restrict(obj, {key \in DOMAIN obj : kept(key)})

pruneObject(obj, map, op, only) ==
  LET kept(key) ==
        IF key \notin DOMAIN map
          THEN ~only
          ELSE IF map[key] = NullKey
                 THEN TRUE
                 ELSE shouldInclude(op, only, map[key])
  IN Restrict(obj, {key \in DOMAIN obj : kept(key)})

-----------------------------------------------------------------------------
(* Field Projection Engine: the key maps and the apply*Options functions.   *)
(* pruneObject deletes keys of the object it is given; every function here  *)
(* returns the object it was given, after the deletions.                    *)

paramMap ==
  [ name |-> "Name", isJSType |-> "IsJSType", type |-> "Type",
    default |-> "Default", defaultParsed |-> "DefaultParsed",
    typeAst |-> "TypeAst", decorators |-> "Decorators", loc |-> "Location" ]

applyParamOptions(param, op, only) ==
  pruneObject(param, paramMap, op, only)

\* a variant that prunes once, by the parameter map with optional added
applyMethodParamOptions_OneMap(param, op, only) ==
  pruneObject(param, [key \in DOMAIN paramMap \cup {"optional"} |->
                        IF key = "optional" THEN "Optional" ELSE paramMap[key]],
              op, only)

applyMethodParamOptions(param, op, only) ==
  pruneObject(applyParamOptions(param, op, only),
              [optional |-> "Optional"], op, only)

typeParameterMap ==
  [ name |-> "Name", constraint |-> "Type", default |-> "Default" ]

applyTypeParameterOptions(tp, op, only) ==
  pruneObject(tp, typeParameterMap, op, only)

baseItemMap ==
  [ name |-> "Name", type |-> "ItemType", level |-> "Level",
    exports |-> "ExportInfo", jsdoc |-> "JSDoc", decorators |-> "Decorators",
    loc |-> "Location" ]

applyBaseItemOptions(item, op, only) ==
  pruneObject(item, baseItemMap, op, only)

\* item[key] when it is truthy (it is then an array), else no elements
ListOf(item, key) == IF Truthy(Get(item, key)) THEN item[key].v ELSE <<>>

\* if (item[key]) item[key] = item[key].map(f), where mapped is the list
\* [i \in DOMAIN ListOf(item, key) |-> f(ListOf(item, key)[i])]
MapIfTruthy(item, key, mapped) ==
  IF Truthy(Get(item, key)) THEN [item EXCEPT ![key] = L(mapped)] ELSE item

functionItemMap ==
  [ arguments |-> "Arguments", typeParameters |-> "TypeParameters",
    returnType |-> "ReturnType", returnTypeAst |-> "ReturnTypeAST" ]

applyFunctionItemOptions(item, op, only) ==
  LET ap(p) == applyParamOptions(p, op, only)
      atp(tp) == applyTypeParameterOptions(tp, op, only)
      i1 == MapIfTruthy(item, "arguments",
              [i \in DOMAIN ListOf(item, "arguments") |-> ap(ListOf(item, "arguments")[i])])
      i2 == MapIfTruthy(i1, "typeParameters",
              [i \in DOMAIN ListOf(i1, "typeParameters") |-> atp(ListOf(i1, "typeParameters")[i])])
      i3 == applyBaseItemOptions(i2, op, only)
  IN pruneObject(i3, functionItemMap, op, only)

variableItemMap ==
  [ subtype |-> "SubType", value |-> "Value", valueText |-> "ValueText",
    valueParsed |-> "ValueParsed", arguments |-> "Arguments" ]

applyVariableItemOptions(item, op, only) ==
  pruneObject(applyBaseItemOptions(item, op, only),
              variableItemMap, op, only)

classMemberPropertyMap ==
  [ name |-> "Name", private |-> "Private", static |-> "Static",
    readonly |-> "Readonly", value |-> "Value", type |-> "Type",
    decorators |-> "Decorators", loc |-> "Location" ]

applyClassMemberPropertyOptions(item, op, only) ==
  pruneObject(item, classMemberPropertyMap, op, only)

\* a variant of the map that leaves loc ungoverned
methodItemMap_NoLoc ==
  [ name |-> "Name", accessibility |-> "Accessibility", static |-> "Static",
    async |-> "Async", abstract |-> "Abstract", isGetter |-> "GetterSetter",
    isSetter |-> "GetterSetter", readonly |-> "Readonly",
    arguments |-> "Arguments", typeParameters |-> "TypeParameters",
    returnType |-> "ReturnType", returnTypeAst |-> "ReturnTypeAST",
    decorators |-> "Decorators", jsdoc |-> "JSDoc" ]

methodItemMap ==
  [ name |-> "Name", accessibility |-> "Accessibility", static |-> "Static",
    async |-> "Async", abstract |-> "Abstract", isGetter |-> "GetterSetter",
    isSetter |-> "GetterSetter", readonly |-> "Readonly",
    arguments |-> "Arguments", typeParameters |-> "TypeParameters",
    returnType |-> "ReturnType", returnTypeAst |-> "ReturnTypeAST",
    decorators |-> "Decorators", loc |-> "Location", jsdoc |-> "JSDoc" ]

applyMethodItemOptions(item, op, only) ==
  LET amp(p) == applyMethodParamOptions(p, op, only)
      atp(tp) == applyTypeParameterOptions(tp, op, only)
      i1 == MapIfTruthy(item, "arguments",
              [i \in DOMAIN ListOf(item, "arguments") |-> amp(ListOf(item, "arguments")[i])])
      i2 == MapIfTruthy(i1, "typeParameters",
              [i \in DOMAIN ListOf(i1, "typeParameters") |-> atp(ListOf(i1, "typeParameters")[i])])
  IN pruneObject(i2, methodItemMap, op, only)

indexSignatureMap ==
  [ keyType |-> "KeyType", returnType |-> "ReturnType",
    readonly |-> "Readonly" ]

applyIndexSignatureOptions(item, op, only) ==
  pruneObject(item, indexSignatureMap, op, only)

enumMemberMap == [ name |-> "Name", value |-> "Value", jsdoc |-> "JSDoc" ]

applyEnumMemberOptions(item, op, only) ==
  pruneObject(item, enumMemberMap, op, only)

interfaceMemberPropertyMap ==
  [ name |-> "Name", optional |-> "Optional", readonly |-> "Readonly",
    type |-> "Type", jsdoc |-> "JSDoc", loc |-> "Location" ]

applyInterfaceMemberPropertyOptions(item, op, only) ==
  pruneObject(item, interfaceMemberPropertyMap, op, only)

interfaceMemberMethodMap ==
  [ name |-> "Name", arguments |-> "Arguments", returnType |-> "ReturnType",
    optional |-> "Optional", jsdoc |-> "JSDoc", loc |-> "Location" ]

applyInterfaceMemberMethodOptions(item, op, only) ==
  LET ap(p) == applyParamOptions(p, op, only)
      i1 == MapIfTruthy(item, "arguments",
              [i \in DOMAIN ListOf(item, "arguments") |-> ap(ListOf(item, "arguments")[i])])
  IN pruneObject(i1, interfaceMemberMethodMap, op, only)

\* The second pass over a constructor member: prune the member, then its
\* function if the member still has one.
applyConstructorMember(ctor, op, only) ==
  LET c1 == pruneObject(ctor, [for |-> "For", function |-> "Members"],
                        op, only)
  IN IF Truthy(Get(c1, "function"))
       THEN [c1 EXCEPT !["function"] =
               O(applyFunctionItemOptions(@.v, op, only))]
       ELSE c1

\* items.map callback of the "class" case: dispatch on the member's shape
applyClassMember(m, op, only) ==
  IF Get(m, "type") = S("constructor")
    THEN applyConstructorMember(m, op, only)
    ELSE IF Get(m, "arguments") # Undef
      THEN applyMethodItemOptions(m, op, only)
      ELSE IF Get(m, "keyType") # Undef
        THEN applyIndexSignatureOptions(m, op, only)
        ELSE applyClassMemberPropertyOptions(m, op, only)

\* members.map callback of the "interface" case
applyInterfaceMember(m, op, only) ==
  IF Get(m, "keyType") # Undef
    THEN applyIndexSignatureOptions(m, op, only)
    ELSE IF Get(m, "arguments") # Undef
      THEN applyInterfaceMemberMethodOptions(m, op, only)
      ELSE applyInterfaceMemberPropertyOptions(m, op, only)

applyTypeAliasItemOptions(item, op, only) ==
  LET atp(tp) == applyTypeParameterOptions(tp, op, only)
      i1 == applyBaseItemOptions(item, op, only)
      i2 == MapIfTruthy(i1, "typeParameters",
              [i \in DOMAIN ListOf(i1, "typeParameters") |-> atp(ListOf(i1, "typeParameters")[i])])
  IN pruneObject(i2, [target |-> "Target", typeParameters |-> "TypeParameters"],
                 op, only)

applyEnumItemOptions(item, op, only) ==
  LET aem(m) == applyEnumMemberOptions(m, op, only)
      i1 == applyBaseItemOptions(item, op, only)
      i2 == MapIfTruthy(i1, "members",
              [i \in DOMAIN ListOf(i1, "members") |-> aem(ListOf(i1, "members")[i])])
  IN pruneObject(i2, [const |-> "Const", members |-> "Members"], op, only)

applyClassItemOptions(item, op, only) ==
  LET atp(tp) == applyTypeParameterOptions(tp, op, only)
      acm(m) == applyClassMember(m, op, only)
      i1 == applyBaseItemOptions(item, op, only)
      i2 == MapIfTruthy(i1, "typeParameters",
              [i \in DOMAIN ListOf(i1, "typeParameters") |-> atp(ListOf(i1, "typeParameters")[i])])
      i3 == MapIfTruthy(i2, "items",
              [i \in DOMAIN ListOf(i2, "items") |-> acm(ListOf(i2, "items")[i])])
  IN pruneObject(i3, [items |-> "Members", typeParameters |-> "TypeParameters"],
                 op, only)

applyInterfaceItemOptions(item, op, only) ==
  LET atp(tp) == applyTypeParameterOptions(tp, op, only)
      aim(m) == applyInterfaceMember(m, op, only)
      i1 == applyBaseItemOptions(item, op, only)
      i2 == MapIfTruthy(i1, "typeParameters",
              [i \in DOMAIN ListOf(i1, "typeParameters") |-> atp(ListOf(i1, "typeParameters")[i])])
      i3 == MapIfTruthy(i2, "members",
              [i \in DOMAIN ListOf(i2, "members") |-> aim(ListOf(i2, "members")[i])])
  IN pruneObject(i3, [members |-> "Members",
                      typeParameters |-> "TypeParameters"], op, only)

RECURSIVE applyParsedItemOptions(_, _, _)
applyParsedItemOptions(item, op, only) ==
  LET type == Get(item, "type")
      rec(m) == applyParsedItemOptions(m, op, only)
  IN CASE type = S("variable") -> applyVariableItemOptions(item, op, only)
       [] type = S("function") -> applyFunctionItemOptions(item, op, only)
       [] type = S("type-alias") -> applyTypeAliasItemOptions(item, op, only)
       [] type = S("enum") -> applyEnumItemOptions(item, op, only)
       [] type = S("class") -> applyClassItemOptions(item, op, only)
       [] type = S("interface") -> applyInterfaceItemOptions(item, op, only)
       [] type = S("namespace") ->
            LET i1 == applyBaseItemOptions(item, op, only)
                i2 == MapIfTruthy(i1, "members",
                        [i \in DOMAIN ListOf(i1, "members") |-> rec(ListOf(i1, "members")[i])])
            IN pruneObject(i2, [members |-> "Members"], op, only)
       [] OTHER -> item

-----------------------------------------------------------------------------
(* Source Front-End: what the accessors of a syntax node return.  A node is *)
(* a record of the accessor results the extractor reads.  Texts that the    *)
(* program only copies are strings; texts it computes on (initializer text, *)
(* documentation text) are sequences of characters.                         *)

NoNode == [kind |-> "none"]

Has(node) == node.kind # "none"

\* A node may name, in a field throws, the accessors of it that throw when
\* they are called; a node without the field has none.
Throws(node, accessor) ==
  "throws" \in DOMAIN node /\ accessor \in node.throws

\* the outcome of a call that ends in an exception
Thrown == [t |-> "thrown"]

NoRange == [known |-> FALSE]

Range(sl, sc, el, ec) ==
  [known |-> TRUE, start |-> [line |-> sl, column |-> sc],
   end |-> [line |-> el, column |-> ec]]

Whitespace == {" ", "\n", "\t"}

RECURSIVE TrimStart(_)
TrimStart(cs) ==
  IF cs # <<>> /\ Head(cs) \in Whitespace THEN TrimStart(Tail(cs)) ELSE cs

RECURSIVE TrimEnd(_)
TrimEnd(cs) ==
  IF cs # <<>> /\ cs[Len(cs)] \in Whitespace
    THEN TrimEnd(SubSeq(cs, 1, Len(cs) - 1))
    ELSE cs

\* String.prototype.trim
Trim(cs) == TrimEnd(TrimStart(cs))

\* Array.prototype.join("\n")
RECURSIVE JoinLines(_)
JoinLines(texts) ==
  IF texts = <<>> THEN <<>>
  ELSE IF Len(texts) = 1 THEN Head(texts)
  ELSE Head(texts) \o <<"\n">> \o JoinLines(Tail(texts))

getJsDocText(node, optionsJsDoc) ==
  IF optionsJsDoc = "never"
    THEN NullV
    ELSE S(Trim(JoinLines(node.jsdocs)))

Digit(c) ==
  CASE c = "0" -> 0 [] c = "1" -> 1 [] c = "2" -> 2 [] c = "3" -> 3
    [] c = "4" -> 4 [] c = "5" -> 5 [] c = "6" -> 6 [] c = "7" -> 7
    [] c = "8" -> 8 [] c = "9" -> 9 [] OTHER -> -1

RECURSIVE DigitsValue(_, _)
DigitsValue(cs, acc) ==
  IF cs = <<>> THEN acc ELSE DigitsValue(Tail(cs), 10 * acc + Digit(Head(cs)))

RECURSIVE Reduce(_, _)
Reduce(m, e) ==
  IF m # 0 /\ e > 0 /\ m % 10 = 0 THEN Reduce(m \div 10, e - 1)
  ELSE IF m = 0 THEN [m |-> 0, e |-> 0] ELSE [m |-> m, e |-> e]

\* Number(text) for decimal literals: the number m / 10^e in lowest terms of
\* ten, NaN for any other text
Number(cs) ==
  LET dots == {i \in DOMAIN cs : cs[i] = "."}
      digits == SelectSeq(cs, LAMBDA c : c # ".")
  IN IF cs = <<>> \/ Cardinality(dots) > 1 \/ digits = <<>>
        \/ \E i \in DOMAIN digits : Digit(digits[i]) < 0
       THEN [t |-> "number", v |-> "NaN"]
       ELSE LET e == IF dots = {} THEN 0 ELSE Len(cs) - (CHOOSE i \in dots : TRUE)
            IN N(Reduce(DigitsValue(digits, 0), e))

LITERAL_SLICE == 200

\* literalValueText without the slice of the default arm
literalValueText_Unsliced(init) ==
  IF ~Has(init) THEN Undef
  ELSE CASE init.kind = "StringLiteral" -> S(init.literalText)
         [] init.kind = "NumericLiteral" -> Number(init.text)
         [] init.kind = "TrueKeyword" -> B(TRUE)
         [] init.kind = "FalseKeyword" -> B(FALSE)
         [] init.kind = "NullKeyword" -> NullV
         [] OTHER -> S(init.text)

literalValueText(init) ==
  IF ~Has(init) THEN Undef
  ELSE CASE init.kind = "StringLiteral" -> S(init.literalText)
         [] init.kind = "NumericLiteral" -> Number(init.text)
         [] init.kind = "TrueKeyword" -> B(TRUE)
         [] init.kind = "FalseKeyword" -> B(FALSE)
         [] init.kind = "NullKeyword" -> NullV
         [] OTHER -> S(SubSeq(init.text, 1,
                              IF Len(init.text) < LITERAL_SLICE
                                THEN Len(init.text) ELSE LITERAL_SLICE))

\* node?.getText?.()
TextOf(node) == IF Has(node) THEN S(node.text) ELSE Undef

locOf(node) ==
  IF Throws(node, "getStart") \/ ~node.range.known
    THEN Undef
    ELSE O([ start |-> O([line |-> N(node.range.start.line),
                          column |-> N(node.range.start.column)]),
             end |-> O([line |-> N(node.range.end.line),
                        column |-> N(node.range.end.column)]) ])

parseDecorators(node) ==
  IF node.decorators = <<>>
    THEN Undef
    ELSE L([i \in DOMAIN node.decorators |->
              LET d == node.decorators[i]
              IN [ name |-> S(d.name),
                   arguments |-> L([j \in DOMAIN d.arguments |-> S(d.arguments[j])]),
                   text |-> S(d.text) ]])

typeParamsOf(node) ==
  IF node.typeParameters = <<>>
    THEN Undef
    ELSE L([i \in DOMAIN node.typeParameters |->
              LET tp == node.typeParameters[i]
              IN [ name |-> S(tp.name),
                   constraint |-> TextOf(tp.constraint),
                   default |-> TextOf(tp.default) ]])

-----------------------------------------------------------------------------
(* Type Expression Normalizer *)

\* the operand nodes the arm of the switch for node reads, in the order in
\* which it reads them
operands(node) ==
  LET k == node.kind
  IN CASE k \in {"UnionType", "IntersectionType"} -> node.types
       [] k = "ArrayType" -> << node.elementType >>
       [] k = "TupleType" -> node.elements
       [] k \in {"OptionalType", "RestType", "ParenthesizedType",
                 "TypeOperator", "MappedType", "TypePredicate"} ->
            << node.type >>
       [] k = "TemplateLiteralType" ->
            [i \in DOMAIN node.spans |-> node.spans[i].type]
       [] k = "FunctionType" ->
            [i \in DOMAIN node.parameters |-> node.parameters[i].typeNode]
              \o << node.returnType >>
       [] k = "TypeReference" -> node.typeArguments
       [] k = "IndexedAccessType" -> << node.objectType, node.indexType >>
       [] k = "ConditionalType" ->
            << node.checkType, node.extendsType, node.trueType,
               node.falseType >>
       [] k = "TypeLiteral" ->
            [i \in DOMAIN node.members |-> node.members[i].typeNode]
       [] OTHER -> <<>>

\* String(err) of the catch clause
Diagnostic == "Error"

\* every node taken as of unknown kind, the kind written where the text goes
parseTypeNode_KindForText(node) ==
  IF ~Has(node) THEN Undef
  ELSE O([kind |-> S("unknown"), kindName |-> S(node.kind),
          text |-> S(node.kind)])

RECURSIVE parseTypeNode(_)
parseTypeNode(node) ==
  IF ~Has(node) THEN Undef
  ELSE IF Throws(node, "getKindName") \/ Throws(node, "getText") THEN Thrown
  ELSE IF \/ Throws(node, "getKind")
          \/ \E i \in DOMAIN operands(node) :
               parseTypeNode(operands(node)[i]) = Thrown
    THEN O([kind |-> S("unknown"), text |-> S(node.text),
            error |-> S(Diagnostic)])
  ELSE
    LET text == S(node.text)
        many(nodes) == L([i \in DOMAIN nodes |-> parseTypeNode(nodes[i]).v])
        k == node.kind
    IN O(CASE k = "UnionType" ->
                [kind |-> S("union"), text |-> text, types |-> many(node.types)]
           [] k = "IntersectionType" ->
                [kind |-> S("intersection"), text |-> text,
                 types |-> many(node.types)]
           [] k = "ArrayType" ->
                [kind |-> S("array"), text |-> text,
                 element |-> parseTypeNode(node.elementType)]
           [] k = "TupleType" ->
                [kind |-> S("tuple"), text |-> text,
                 elements |-> many(node.elements)]
           [] k \in {"OptionalType", "RestType"} ->
                [kind |-> S(IF k = "OptionalType" THEN "optional" ELSE "rest"),
                 text |-> text, type |-> parseTypeNode(node.type)]
           [] k = "LiteralType" ->
                [kind |-> S("literal"), text |-> text, value |-> S(node.literal)]
           [] k = "TemplateLiteralType" ->
                [kind |-> S("template-literal"), text |-> text,
                 spans |-> L([i \in DOMAIN node.spans |->
                                [type |-> parseTypeNode(node.spans[i].type),
                                 literal |-> S(node.spans[i].literal)]])]
           [] k = "FunctionType" ->
                [kind |-> S("function"), text |-> text,
                 parameters |-> L([i \in DOMAIN node.parameters |->
                    [name |-> S(node.parameters[i].name),
                     type |-> TextOf(node.parameters[i].typeNode),
                     typeAst |-> parseTypeNode(node.parameters[i].typeNode)]]),
                 returnType |-> TextOf(node.returnType),
                 returnTypeAst |-> parseTypeNode(node.returnType)]
           [] k = "ParenthesizedType" ->
                [kind |-> S("parenthesized"), text |-> text,
                 type |-> parseTypeNode(node.type)]
           [] k = "TypeReference" ->
                [kind |-> S("reference"), text |-> text,
                 name |-> S(node.typeName),
                 typeArguments |-> many(node.typeArguments)]
           [] k = "TypeOperator" ->
                [kind |-> S("type-operator"), text |-> text,
                 operator |-> S(node.operator),
                 type |-> parseTypeNode(node.type)]
           [] k = "IndexedAccessType" ->
                [kind |-> S("indexed-access"), text |-> text,
                 objectType |-> parseTypeNode(node.objectType),
                 indexType |-> parseTypeNode(node.indexType)]
           [] k = "MappedType" ->
                [kind |-> S("mapped"), text |-> text,
                 typeParameter |-> S(node.typeParameter),
                 nameType |-> TextOf(node.nameType),
                 optional |-> TextOf(node.questionToken),
                 readonly |-> TextOf(node.readonlyToken),
                 type |-> parseTypeNode(node.type)]
           [] k = "ConditionalType" ->
                [kind |-> S("conditional"), text |-> text,
                 checkType |-> parseTypeNode(node.checkType),
                 extendsType |-> parseTypeNode(node.extendsType),
                 trueType |-> parseTypeNode(node.trueType),
                 falseType |-> parseTypeNode(node.falseType)]
           [] k = "TypePredicate" ->
                [kind |-> S("predicate"), text |-> text,
                 parameterName |-> S(node.parameterName),
                 asserts |-> B(node.hasAssertsKeyword),
                 type |-> parseTypeNode(node.type)]
           [] k = "TypeQuery" ->
                [kind |-> S("type-query"), text |-> text,
                 exprName |-> S(node.exprName)]
           [] k = "InferType" ->
                [kind |-> S("infer"), text |-> text,
                 typeParameter |-> S(node.typeParameter)]
           [] k = "TypeLiteral" ->
                [kind |-> S("object"), text |-> text,
                 properties |-> L([i \in DOMAIN node.members |->
                    [name |-> S(node.members[i].name),
                     type |-> TextOf(node.members[i].typeNode),
                     typeAst |-> parseTypeNode(node.members[i].typeNode),
                     readonly |-> B(node.members[i].isReadonly)]])]
           [] k = "ImportType" ->
                [kind |-> S("import"), text |-> text,
                 argument |-> S(node.argument)]
           [] OTHER ->
                [kind |-> S("unknown"), kindName |-> S(k), text |-> text])

-----------------------------------------------------------------------------
(* Declaration Extractor: the records the extractor builds *)

paramInfo(param) ==
  [ name |-> S(param.name),
    isJSType |-> B(Has(param.typeNode)),
    type |-> TextOf(param.typeNode),
    default |-> TextOf(param.initializer),
    defaultParsed |-> literalValueText(param.initializer),
    typeAst |-> parseTypeNode(param.typeNode),
    decorators |-> parseDecorators(param),
    loc |-> locOf(param) ]

methodParamInfo(param) ==
  With(paramInfo(param), "optional", B(param.isOptional))

\* the export disposition with the two tests in the other order
exportsOf_ExportedFirst(node) ==
  S(IF node.isExported THEN "normal"
    ELSE IF node.isDefaultExport THEN "default" ELSE "none")

\* x.isDefaultExport() ? "default" : x.isExported() ? "normal" : "none"
exportsOf(node) ==
  S(IF node.isDefaultExport THEN "default"
    ELSE IF node.isExported THEN "normal" ELSE "none")

\* node.getName?.() ?? null; a node without a name has name = Undef
nameOrNull(node) == Coalesce(node.name, NullV)

functionLikeToItem(fn, level, jsdocOption) ==
  [ name |-> nameOrNull(fn),
    type |-> S("function"),
    level |-> S(level),
    exports |-> exportsOf(fn),
    jsdoc |-> getJsDocText(fn, jsdocOption),
    decorators |-> parseDecorators(fn),
    loc |-> locOf(fn),
    arguments |-> L([i \in DOMAIN fn.parameters |-> paramInfo(fn.parameters[i])]),
    typeParameters |-> typeParamsOf(fn),
    returnType |-> TextOf(fn.returnTypeNode),
    returnTypeAst |-> parseTypeNode(fn.returnTypeNode) ]

\* the item of a declaration with every subtype but "constant" read as "let"
variableItem_ConstantOrLet(vs, d, jsdocOption) ==
  [ name |-> S(d.name),
    type |-> S("variable"),
    subtype |-> S(IF vs.declarationKind = "const" THEN "constant"
                  ELSE "let"),
    value |-> literalValueText(d.initializer),
    valueText |-> TextOf(d.initializer),
    valueParsed |-> literalValueText(d.initializer),
    exports |-> exportsOf(vs),
    level |-> S("top"),
    jsdoc |-> getJsDocText(d, jsdocOption),
    decorators |-> parseDecorators(d),
    loc |-> locOf(d),
    arguments |-> L(<<>>) ]

variableItem(vs, d, jsdocOption) ==
  [ name |-> S(d.name),
    type |-> S("variable"),
    subtype |-> S(IF vs.declarationKind = "const" THEN "constant"
                  ELSE IF vs.declarationKind = "let" THEN "let" ELSE "var"),
    value |-> literalValueText(d.initializer),
    valueText |-> TextOf(d.initializer),
    valueParsed |-> literalValueText(d.initializer),
    exports |-> exportsOf(vs),
    level |-> S("top"),
    jsdoc |-> getJsDocText(d, jsdocOption),
    decorators |-> parseDecorators(d),
    loc |-> locOf(d),
    arguments |-> L(<<>>) ]

typeAliasItem(ta, jsdocOption) ==
  [ name |-> nameOrNull(ta),
    type |-> S("type-alias"),
    level |-> S("top"),
    exports |-> exportsOf(ta),
    jsdoc |-> getJsDocText(ta, jsdocOption),
    target |-> TextOf(ta.typeNode),
    typeParameters |-> typeParamsOf(ta) ]

enumMember(m, jsdocOption) ==
  [ name |-> S(m.name),
    value |-> literalValueText(m.initializer),
    jsdoc |-> getJsDocText(m, jsdocOption) ]

enumItem(ed, members, jsdocOption) ==
  [ name |-> nameOrNull(ed),
    type |-> S("enum"),
    level |-> S("top"),
    exports |-> exportsOf(ed),
    jsdoc |-> getJsDocText(ed, jsdocOption),
    const |-> B(ed.isConstEnum),
    members |-> L(members) ]

\* the item pushed for `export default <identifier>` naming a variable
exportedVariableItem(vd, jsdocOption) ==
  [ name |-> S(vd.name),
    type |-> S("variable"),
    subtype |-> S("constant"),
    value |-> literalValueText(vd.initializer),
    valueText |-> TextOf(vd.initializer),
    valueParsed |-> literalValueText(vd.initializer),
    exports |-> S("default"),
    level |-> S("top"),
    jsdoc |-> getJsDocText(vd, jsdocOption),
    arguments |-> L(<<>>) ]

\* src.getVariableDeclaration(id): the declarations of the unit's variable
\* statements, in order, that are named id
variableDeclarations(stmts) ==
  Concat([i \in DOMAIN stmts |->
            IF stmts[i].kind = "VariableStatement"
              THEN stmts[i].declarations ELSE <<>>])

getVariableDeclaration(stmts, id) ==
  LET found == SelectSeq(variableDeclarations(stmts), LAMBDA d : d.name = id)
  IN IF found = <<>> THEN NoNode ELSE Head(found)

ClassMemberKinds ==
  { "Constructor", "MethodDeclaration", "GetAccessor", "SetAccessor",
    "PropertyDeclaration", "IndexSignature" }

indexSignatureItem(idx) ==
  [ keyType |-> IF idx.keyMatch = "" THEN Undef ELSE S(idx.keyMatch),
    returnType |-> IF Has(idx.returnTypeNode)
                     THEN S(idx.returnTypeNode.text)
                     ELSE IF idx.returnMatch = "" THEN Undef
                          ELSE S(idx.returnMatch),
    readonly |-> B(idx.isReadonly) ]

\* the record built for one member of a class, before any pruning;
\* fn is the item of the constructor's function
classMember(m, cd, fn, jsdocOption) ==
  CASE m.kind = "Constructor" ->
         [ type |-> S("constructor"),
           for |-> Coalesce(cd.name, S("")),
           function |-> O(fn) ]
    [] m.kind = "MethodDeclaration" ->
         [ name |-> S(m.name),
           accessibility |-> IF m.isPrivate THEN S("private")
                             ELSE IF m.isProtected THEN S("protected")
                             ELSE Undef,
           static |-> B(m.isStatic),
           async |-> B(m.isAsync),
           abstract |-> B(m.isAbstract),
           decorators |-> parseDecorators(m),
           arguments |-> L([i \in DOMAIN m.parameters |->
                              methodParamInfo(m.parameters[i])]),
           typeParameters |-> typeParamsOf(m),
           returnType |-> TextOf(m.returnTypeNode),
           returnTypeAst |-> parseTypeNode(m.returnTypeNode),
           jsdoc |-> getJsDocText(m, jsdocOption),
           loc |-> locOf(m) ]
    [] m.kind = "GetAccessor" ->
         [ name |-> S(m.name),
           isGetter |-> B(TRUE),
           arguments |-> L(<<>>),
           returnType |-> TextOf(m.returnTypeNode),
           jsdoc |-> getJsDocText(m, jsdocOption) ]
    [] m.kind = "SetAccessor" ->
         [ name |-> S(m.name),
           isSetter |-> B(TRUE),
           arguments |-> L([i \in DOMAIN m.parameters |->
                              methodParamInfo(m.parameters[i])]),
           jsdoc |-> getJsDocText(m, jsdocOption) ]
    [] m.kind = "PropertyDeclaration" ->
         [ name |-> S(m.name),
           private |-> B(m.isPrivate \/ m.hasHashName),
           static |-> B(m.isStatic),
           readonly |-> B(m.isReadonly),
           value |-> literalValueText(m.initializer),
           type |-> TextOf(m.typeNode),
           decorators |-> parseDecorators(m),
           loc |-> locOf(m) ]
    [] m.kind = "IndexSignature" -> indexSignatureItem(m)

\* members.push(...) of the class loop: the member as pushed
pushedClassMember(m, cd, op, only) ==
  CASE m.kind = "Constructor" ->
         classMember(m, cd,
                     applyFunctionItemOptions(
                       functionLikeToItem(m, "sub", op["JSDoc"]),
                       op, only),
                     op["JSDoc"])
    [] m.kind \in {"MethodDeclaration", "GetAccessor", "SetAccessor"} ->
         applyMethodItemOptions(classMember(m, cd, EmptyObject, op["JSDoc"]),
                                op, only)
    [] m.kind = "PropertyDeclaration" ->
         applyClassMemberPropertyOptions(
           classMember(m, cd, EmptyObject, op["JSDoc"]), op, only)
    [] m.kind = "IndexSignature" ->
         applyIndexSignatureOptions(
           classMember(m, cd, EmptyObject, op["JSDoc"]), op, only)

classItem(cd, members, jsdocOption) ==
  [ name |-> nameOrNull(cd),
    type |-> S("class"),
    level |-> S("top"),
    exports |-> exportsOf(cd),
    jsdoc |-> getJsDocText(cd, jsdocOption),
    items |-> L(members),
    typeParameters |-> typeParamsOf(cd) ]

InterfaceMemberKinds == {"PropertySignature", "MethodSignature", "IndexSignature"}

interfaceMember(m, jsdocOption) ==
  CASE m.kind = "PropertySignature" ->
         [ name |-> S(m.name),
           optional |-> B(m.hasQuestionToken),
           readonly |-> B(m.isReadonly),
           type |-> TextOf(m.typeNode),
           jsdoc |-> getJsDocText(m, jsdocOption),
           loc |-> locOf(m) ]
    [] m.kind = "MethodSignature" ->
         [ name |-> S(m.name),
           arguments |-> L([i \in DOMAIN m.parameters |->
                              paramInfo(m.parameters[i])]),
           returnType |-> TextOf(m.returnTypeNode),
           optional |-> B(m.hasQuestionToken),
           jsdoc |-> getJsDocText(m, jsdocOption),
           loc |-> locOf(m) ]
    [] m.kind = "IndexSignature" -> indexSignatureItem(m)

pushedInterfaceMember(m, op, only) ==
  CASE m.kind = "PropertySignature" ->
         applyInterfaceMemberPropertyOptions(
           interfaceMember(m, op["JSDoc"]), op, only)
    [] m.kind = "MethodSignature" ->
         applyInterfaceMemberMethodOptions(
           interfaceMember(m, op["JSDoc"]), op, only)
    [] m.kind = "IndexSignature" ->
         applyIndexSignatureOptions(
           interfaceMember(m, op["JSDoc"]), op, only)

interfaceItem(id, members, jsdocOption) ==
  [ name |-> nameOrNull(id),
    type |-> S("interface"),
    level |-> S("top"),
    exports |-> exportsOf(id),
    jsdoc |-> getJsDocText(id, jsdocOption),
    members |-> L(members),
    typeParameters |-> typeParamsOf(id) ]

namespaceItem(md, members, jsdocOption) ==
  [ name |-> nameOrNull(md),
    type |-> S("namespace"),
    level |-> S("top"),
    exports |-> S(IF md.isExported THEN "normal" ELSE "none"),
    jsdoc |-> getJsDocText(md, jsdocOption),
    members |-> L(members) ]

-----------------------------------------------------------------------------
(* Declaration Extractor: parseWithTsMorph *)

ChildFields == {"declarations", "parameters", "members", "body"}

\* Positions of a node and of the nodes below it, counted from origin: the
\* line and column getLineAndColumnAtPos gives once the text starts at origin.
RECURSIVE rebase(_, _)
rebase(node, origin) ==
  LET shift(p) ==
        [ line |-> p.line - origin.line + 1,
          column |-> IF p.line = origin.line
                       THEN p.column - origin.column + 1 ELSE p.column ]
  IN [f \in DOMAIN node |->
        CASE f = "range" ->
               IF node[f].known
                 THEN [known |-> TRUE, start |-> shift(node[f].start),
                       end |-> shift(node[f].end)]
                 ELSE node[f]
          [] f \in ChildFields ->
               [i \in DOMAIN node[f] |-> rebase(node[f][i], origin)]
          [] OTHER -> node[f]]

\* The statements of the source file created from s.getText(): the text of a
\* node starts at the node, after its documentation comments.
reparse(s) ==
  LET r == IF s.range.known THEN rebase(s, s.range.start) ELSE s
  IN << IF "jsdocs" \in DOMAIN r THEN [r EXCEPT !.jsdocs = <<>>] ELSE r >>

\* the argument passed for options at the recursive call
nestedOptions(o) == o

StatementKinds ==
  { "VariableStatement", "FunctionDeclaration", "TypeAliasDeclaration",
    "EnumDeclaration", "ExportAssignment", "ClassDeclaration",
    "InterfaceDeclaration", "ModuleDeclaration" }

\* An accessor throws outside every try while node is extracted: getJsDocs
\* inside getJsDocText, or the accessors of a type node that are read outside
\* the try of parseTypeNode; the nodes of the lists the loops walk likewise.
RECURSIVE nodeRaises(_, _)
nodeRaises(node, jsdocOption) ==
  \/ /\ "jsdocs" \in DOMAIN node
     /\ jsdocOption # "never"
     /\ Throws(node, "getJsDocs")
  \/ \E f \in DOMAIN node \cap {"typeNode", "returnTypeNode"} :
       parseTypeNode(node[f]) = Thrown
  \/ \E f \in DOMAIN node \cap {"declarations", "parameters", "members"} :
       \E i \in DOMAIN node[f] : nodeRaises(node[f][i], jsdocOption)

\* the iteration of the statement loop over stmt ends in an exception
raises(stmt, unit, op) ==
  IF stmt.kind = "ExportAssignment"
    THEN /\ Has(stmt.expression)
         /\ IF stmt.expression.kind \in {"FunctionExpression", "ArrowFunction"}
              THEN nodeRaises(stmt.expression, op["JSDoc"])
              ELSE LET vd == getVariableDeclaration(unit, stmt.expression.text)
                   IN /\ Has(vd)
                      /\ op["JSDoc"] # "never"
                      /\ Throws(vd, "getJsDocs")
    ELSE stmt.kind \in StatementKinds /\ nodeRaises(stmt, op["JSDoc"])


\* a variant that emits an item for the first declaration alone
variableStatementItems_First(vs, op, only) ==
  [i \in DOMAIN vs.declarations \cap {1} |->
     applyVariableItemOptions(
       variableItem(vs, vs.declarations[i], op["JSDoc"]), op, only)]

variableStatementItems(vs, op, only) ==
  [i \in DOMAIN vs.declarations |->
     applyVariableItemOptions(
       variableItem(vs, vs.declarations[i], op["JSDoc"]), op, only)]

functionDeclarationItems(fd, op, only) ==
  << applyFunctionItemOptions(functionLikeToItem(fd, "top", op["JSDoc"]),
                              op, only) >>

typeAliasItems(ta, op, only) ==
  << applyTypeAliasItemOptions(typeAliasItem(ta, op["JSDoc"]), op, only) >>

enumItems(ed, op, only) ==
  LET aem(m) == applyEnumMemberOptions(m, op, only)
      members == [i \in DOMAIN ed.members |->
                    aem(enumMember(ed.members[i], op["JSDoc"]))]
      item == enumItem(ed, members, op["JSDoc"])
      i1 == applyBaseItemOptions(item, op, only)
      i2 == pruneObject(i1, [const |-> "Const", members |-> "Members"],
                        op, only)
  IN << MapIfTruthy(i2, "members",
          [i \in DOMAIN ListOf(i2, "members") |-> aem(ListOf(i2, "members")[i])]) >>

\* the ExportAssignment branch without `f.exports = "default"`
exportAssignmentItems_Unlabelled(ea, unit, op, only) ==
  LET expr == ea.expression
  IN IF ~Has(expr) THEN <<>>
     ELSE IF expr.kind \in {"FunctionExpression", "ArrowFunction"}
       THEN << applyFunctionItemOptions(
                 functionLikeToItem(expr, "top", op["JSDoc"]), op, only) >>
       ELSE LET vd == getVariableDeclaration(unit, expr.text)
            IN IF expr.text # "" /\ Has(vd)
                 THEN << applyVariableItemOptions(
                           exportedVariableItem(vd, op["JSDoc"]),
                           op, only) >>
                 ELSE <<>>

\* the ExportAssignment branch with an item for every expression shape
exportAssignmentItems_Synthetic(ea, unit, op, only) ==
  LET expr == ea.expression
  IN IF ~Has(expr) THEN <<>>
     ELSE IF expr.kind \in {"FunctionExpression", "ArrowFunction"}
       THEN << applyFunctionItemOptions(
                 [functionLikeToItem(expr, "top", op["JSDoc"])
                    EXCEPT !["exports"] = S("default")],
                 op, only) >>
       ELSE LET vd == getVariableDeclaration(unit, expr.text)
            IN IF expr.text # "" /\ Has(vd)
                 THEN << applyVariableItemOptions(
                           exportedVariableItem(vd, op["JSDoc"]),
                           op, only) >>
                 ELSE << applyVariableItemOptions(
                           [ name |-> S(expr.text), type |-> S("variable"),
                             exports |-> S("default"), level |-> S("top") ],
                           op, only) >>

exportAssignmentItems(ea, unit, op, only) ==
  LET expr == ea.expression
  IN IF ~Has(expr) THEN <<>>
     ELSE IF expr.kind \in {"FunctionExpression", "ArrowFunction"}
       THEN << applyFunctionItemOptions(
                 [functionLikeToItem(expr, "top", op["JSDoc"])
                    EXCEPT !["exports"] = S("default")],
                 op, only) >>
       ELSE LET vd == getVariableDeclaration(unit, expr.text)
            IN IF expr.text # "" /\ Has(vd)
                 THEN << applyVariableItemOptions(
                           exportedVariableItem(vd, op["JSDoc"]),
                           op, only) >>
                 ELSE <<>>

classItems(cd, op, only) ==
  LET atp(tp) == applyTypeParameterOptions(tp, op, only)
      second(m) == IF Get(m, "type") = S("constructor")
                     THEN applyConstructorMember(m, op, only)
                     ELSE m
      nodes == SelectSeq(cd.members, LAMBDA m : m.kind \in ClassMemberKinds)
      members == [i \in DOMAIN nodes |->
                    pushedClassMember(nodes[i], cd, op, only)]
      item == classItem(cd, members, op["JSDoc"])
      i1 == applyBaseItemOptions(item, op, only)
      i2 == MapIfTruthy(i1, "typeParameters",
              [i \in DOMAIN ListOf(i1, "typeParameters") |-> atp(ListOf(i1, "typeParameters")[i])])
      i3 == MapIfTruthy(i2, "items",
              [i \in DOMAIN ListOf(i2, "items") |-> second(ListOf(i2, "items")[i])])
  IN << pruneObject(i3, [items |-> "Members",
                         typeParameters |-> "TypeParameters"],
                    op, only) >>

interfaceItems(id, op, only) ==
  LET nodes == SelectSeq(id.members, LAMBDA m : m.kind \in InterfaceMemberKinds)
      members == [i \in DOMAIN nodes |->
                    pushedInterfaceMember(nodes[i], op, only)]
  IN << applyInterfaceItemOptions(interfaceItem(id, members, op["JSDoc"]),
                                  op, only) >>

\* { ...it, level: "sub" }
stampSub(it) == With(it, "level", S("sub"))

RECURSIVE parseWithTsMorph(_, _)
RECURSIVE statementItems(_, _, _, _, _)

moduleItems(md, o, op, only) ==
  LET rec(m) == applyParsedItemOptions(m, op, only)
      members ==
        Concat([i \in DOMAIN md.body |->
                  LET inner == parseWithTsMorph(reparse(md.body[i]),
                                                nestedOptions(o))
                  IN [j \in DOMAIN inner |-> stampSub(inner[j])]])
      item == namespaceItem(md, members, op["JSDoc"])
      i1 == applyBaseItemOptions(item, op, only)
      i2 == MapIfTruthy(i1, "members",
              [i \in DOMAIN ListOf(i1, "members") |-> rec(ListOf(i1, "members")[i])])
  IN << pruneObject(i2, [members |-> "Members"], op, only) >>

\* one iteration of the statement loop: the items pushed for stmt
statementItems(stmt, unit, o, op, only) ==
  CASE stmt.kind = "VariableStatement" -> variableStatementItems(stmt, op, only)
    [] stmt.kind = "FunctionDeclaration" -> functionDeclarationItems(stmt, op, only)
    [] stmt.kind = "TypeAliasDeclaration" -> typeAliasItems(stmt, op, only)
    [] stmt.kind = "EnumDeclaration" -> enumItems(stmt, op, only)
    [] stmt.kind = "ExportAssignment" -> exportAssignmentItems(stmt, unit, op, only)
    [] stmt.kind = "ClassDeclaration" -> classItems(stmt, op, only)
    [] stmt.kind = "InterfaceDeclaration" -> interfaceItems(stmt, op, only)
    [] stmt.kind = "ModuleDeclaration" -> moduleItems(stmt, o, op, only)
    [] OTHER -> <<>>

parseWithTsMorph(unit, o) ==
  LET op == normalizeOptions(o)
      only == onlyModeOf(op)
  IN Concat([i \in DOMAIN unit |-> statementItems(unit[i], unit, o, op, only)])

-----------------------------------------------------------------------------
(* The tree as built, before any projection: the object literals of         *)
(* parseWithTsMorph with no pruneObject applied.                            *)

RECURSIVE unprunedTree(_)

unprunedStatement(stmt, unit) ==
  CASE stmt.kind = "VariableStatement" ->
         [i \in DOMAIN stmt.declarations |->
            variableItem(stmt, stmt.declarations[i], "include")]
    [] stmt.kind = "FunctionDeclaration" ->
         << functionLikeToItem(stmt, "top", "include") >>
    [] stmt.kind = "TypeAliasDeclaration" -> << typeAliasItem(stmt, "include") >>
    [] stmt.kind = "EnumDeclaration" ->
         << enumItem(stmt, [i \in DOMAIN stmt.members |->
                              enumMember(stmt.members[i], "include")],
                     "include") >>
    [] stmt.kind = "ExportAssignment" ->
         LET expr == stmt.expression
         IN IF ~Has(expr) THEN <<>>
            ELSE IF expr.kind \in {"FunctionExpression", "ArrowFunction"}
              THEN << [functionLikeToItem(expr, "top", "include")
                         EXCEPT !["exports"] = S("default")] >>
              ELSE LET vd == getVariableDeclaration(unit, expr.text)
                   IN IF expr.text # "" /\ Has(vd)
                        THEN << exportedVariableItem(vd, "include") >>
                        ELSE <<>>
    [] stmt.kind = "ClassDeclaration" ->
         LET nodes == SelectSeq(stmt.members,
                                LAMBDA m : m.kind \in ClassMemberKinds)
         IN << classItem(stmt,
                 [i \in DOMAIN nodes |->
                    classMember(nodes[i], stmt,
                      IF nodes[i].kind = "Constructor"
                        THEN functionLikeToItem(nodes[i], "sub", "include")
                        ELSE EmptyObject,
                      "include")],
                 "include") >>
    [] stmt.kind = "InterfaceDeclaration" ->
         LET nodes == SelectSeq(stmt.members,
                                LAMBDA m : m.kind \in InterfaceMemberKinds)
         IN << interfaceItem(stmt,
                 [i \in DOMAIN nodes |-> interfaceMember(nodes[i], "include")],
                 "include") >>
    [] stmt.kind = "ModuleDeclaration" ->
         << namespaceItem(stmt,
              Concat([i \in DOMAIN stmt.body |->
                        LET inner == unprunedTree(reparse(stmt.body[i]))
                        IN [j \in DOMAIN inner |-> stampSub(inner[j])]]),
              "include") >>
    [] OTHER -> <<>>

unprunedTree(unit) ==
  Concat([i \in DOMAIN unit |-> unprunedStatement(unit[i], unit)])

-----------------------------------------------------------------------------
(* Source units: the syntax trees the Front-End hands to the extractor.     *)

NumberKeyword == [kind |-> "NumberKeyword", text |-> "number"]

StringKeyword == [kind |-> "StringKeyword", text |-> "string"]

TypeRef(n) ==
  [kind |-> "TypeReference", text |-> n, typeName |-> n, typeArguments |-> <<>>]

UnionAB ==
  [kind |-> "UnionType", text |-> "A | B", types |-> <<TypeRef("A"), TypeRef("B")>>]

ArrayOfT ==
  [kind |-> "ArrayType", text |-> "T[]", elementType |-> TypeRef("T")]

NumericLiteral(cs) == [kind |-> "NumericLiteral", text |-> cs]

StringLiteralX ==
  [kind |-> "StringLiteral", text |-> <<"\"", "x", "\"">>, literalText |-> <<"x">>]

TrueKeyword == [kind |-> "TrueKeyword", text |-> <<"t", "r", "u", "e">>]

CallExpression == [kind |-> "CallExpression", text |-> <<"f", "(", ")">>]

Decorator(n) == [name |-> n, arguments |-> <<"1">>, text |-> "@dec(1)"]

TypeParam(n, constraint) ==
  [name |-> n, constraint |-> constraint, default |-> NoNode]

Param(n, typeNode, init, optional, decorators, range) ==
  [ kind |-> "Parameter", name |-> n, typeNode |-> typeNode,
    initializer |-> init, isOptional |-> optional, decorators |-> decorators,
    range |-> range ]

VarDecl(n, init, range) ==
  [ kind |-> "VariableDeclaration", name |-> n, initializer |-> init,
    jsdocs |-> <<>>, decorators |-> <<>>, range |-> range ]

DocText == <<" ", "d", "o", "c", "\n">>

\* export const PI = 3.14;
StmtConstPI ==
  [ kind |-> "VariableStatement", declarationKind |-> "const",
    isExported |-> TRUE, isDefaultExport |-> FALSE,
    declarations |-> << VarDecl("PI", NumericLiteral(<<"3", ".", "1", "4">>),
                                Range(1, 14, 1, 23)) >>,
    range |-> Range(1, 1, 1, 24) ]

\* let a = "x", b, c = f();
StmtLetABC ==
  [ kind |-> "VariableStatement", declarationKind |-> "let",
    isExported |-> FALSE, isDefaultExport |-> FALSE,
    declarations |-> << VarDecl("a", StringLiteralX, Range(2, 5, 2, 12)),
                        VarDecl("b", NoNode, Range(2, 14, 2, 15)),
                        VarDecl("c", CallExpression, Range(2, 17, 2, 24)) >>,
    range |-> Range(2, 1, 2, 25) ]

\* var { p, q } = f(), r;   the name of a declaration is the text of its
\* name node, a binding pattern included
StmtVarPattern ==
  [ kind |-> "VariableStatement", declarationKind |-> "var",
    isExported |-> FALSE, isDefaultExport |-> FALSE,
    declarations |-> << VarDecl("{ p, q }", CallExpression, Range(3, 5, 3, 19)),
                        VarDecl("r", NoNode, Range(3, 21, 3, 22)) >>,
    range |-> Range(3, 1, 3, 23) ]

\* /** doc */ export default function f<T extends A>(a: number, b = true): string {}
StmtFunctionF ==
  [ kind |-> "FunctionDeclaration", name |-> S("f"),
    isExported |-> TRUE, isDefaultExport |-> TRUE,
    jsdocs |-> <<DocText>>, decorators |-> <<>>,
    parameters |-> << Param("a", NumberKeyword, NoNode, FALSE, <<>>,
                            Range(4, 42, 4, 51)),
                      Param("b", NoNode, TrueKeyword, TRUE, <<>>,
                            Range(4, 53, 4, 61)) >>,
    typeParameters |-> << TypeParam("T", TypeRef("A")) >>,
    returnTypeNode |-> StringKeyword,
    range |-> Range(4, 1, 4, 74) ]

\* type T<K> = A | B;
StmtTypeAlias ==
  [ kind |-> "TypeAliasDeclaration", name |-> S("T"),
    isExported |-> FALSE, isDefaultExport |-> FALSE, jsdocs |-> <<>>,
    typeNode |-> UnionAB, typeParameters |-> << TypeParam("K", NoNode) >>,
    range |-> Range(5, 1, 5, 19) ]

\* export const enum E { A = 1, /** doc */ B }
StmtEnum ==
  [ kind |-> "EnumDeclaration", name |-> S("E"),
    isExported |-> TRUE, isDefaultExport |-> FALSE, jsdocs |-> <<>>,
    isConstEnum |-> TRUE,
    members |-> << [name |-> "A", initializer |-> NumericLiteral(<<"1">>),
                    jsdocs |-> <<>>],
                   [name |-> "B", initializer |-> NoNode,
                    jsdocs |-> <<DocText>>] >>,
    range |-> Range(6, 1, 6, 44) ]

\* export default (x) => x;
StmtExportArrow ==
  [ kind |-> "ExportAssignment",
    expression |->
      [ kind |-> "ArrowFunction", text |-> "(x) => x", name |-> Undef,
        isExported |-> FALSE, isDefaultExport |-> FALSE,
        jsdocs |-> <<>>, decorators |-> <<>>,
        parameters |-> << Param("x", NoNode, NoNode, FALSE, <<>>,
                                Range(7, 17, 7, 18)) >>,
        typeParameters |-> <<>>, returnTypeNode |-> NoNode,
        range |-> Range(7, 16, 7, 24) ],
    range |-> Range(7, 1, 7, 25) ]

\* export default PI;
StmtExportPI ==
  [ kind |-> "ExportAssignment",
    expression |-> [kind |-> "Identifier", text |-> "PI"],
    range |-> Range(8, 1, 8, 19) ]

\* export default { a: 1 };
StmtExportObject ==
  [ kind |-> "ExportAssignment",
    expression |-> [kind |-> "ObjectLiteralExpression", text |-> "{ a: 1 }"],
    range |-> Range(9, 1, 9, 25) ]

\* export = function g(y) {};
StmtExportFunction ==
  [ kind |-> "ExportAssignment",
    expression |->
      [ kind |-> "FunctionExpression", text |-> "function g(y) {}",
        name |-> S("g"),
        isExported |-> FALSE, isDefaultExport |-> FALSE,
        jsdocs |-> <<>>, decorators |-> <<>>,
        parameters |-> << Param("y", NoNode, NoNode, FALSE, <<>>,
                                Range(10, 21, 10, 22)) >>,
        typeParameters |-> <<>>, returnTypeNode |-> NoNode,
        range |-> Range(10, 10, 10, 26) ],
    range |-> Range(10, 1, 10, 27) ]

\* export default f();
StmtExportCall ==
  [ kind |-> "ExportAssignment",
    expression |-> [kind |-> "CallExpression", text |-> "f()"],
    range |-> Range(11, 1, 11, 20) ]

IndexSignature(keyMatch, range) ==
  [ kind |-> "IndexSignature", keyMatch |-> keyMatch,
    returnTypeNode |-> NumberKeyword, returnMatch |-> "number",
    isReadonly |-> TRUE, range |-> range ]

\* class C<T> { constructor(x: number) {}  @dec(1) private async m(p?: T[]): T {}
\*   get g(): string {}  set s(v) {}  static readonly #p: number = 1;
\*   readonly [k: string]: number;  static {} }
StmtClass ==
  [ kind |-> "ClassDeclaration", name |-> S("C"),
    isExported |-> FALSE, isDefaultExport |-> FALSE, jsdocs |-> <<DocText>>,
    typeParameters |-> << TypeParam("T", NoNode) >>,
    members |->
      << [ kind |-> "Constructor", name |-> Undef,
           isExported |-> FALSE, isDefaultExport |-> FALSE,
           jsdocs |-> <<>>, decorators |-> <<>>,
           parameters |-> << Param("x", NumberKeyword, NoNode, FALSE, <<>>,
                                   Range(11, 15, 11, 24)) >>,
           typeParameters |-> <<>>, returnTypeNode |-> NoNode,
           range |-> Range(11, 3, 11, 28) ],
         [ kind |-> "MethodDeclaration", name |-> "m",
           isPrivate |-> TRUE, isProtected |-> FALSE, isStatic |-> FALSE,
           isAsync |-> TRUE, isAbstract |-> FALSE,
           jsdocs |-> <<>>, decorators |-> << Decorator("dec") >>,
           parameters |-> << Param("p", ArrayOfT, NoNode, TRUE,
                                   << Decorator("inject") >>,
                                   Range(12, 27, 12, 34)) >>,
           typeParameters |-> << TypeParam("U", NoNode) >>,
           returnTypeNode |-> TypeRef("T"),
           range |-> Range(12, 3, 12, 41) ],
         [ kind |-> "GetAccessor", name |-> "g", jsdocs |-> <<DocText>>,
           returnTypeNode |-> StringKeyword, range |-> Range(13, 3, 13, 21) ],
         [ kind |-> "SetAccessor", name |-> "s", jsdocs |-> <<>>,
           parameters |-> << Param("v", NoNode, NoNode, FALSE, <<>>,
                                   Range(14, 9, 14, 10)) >>,
           range |-> Range(14, 3, 14, 14) ],
         [ kind |-> "PropertyDeclaration", name |-> "#p",
           isPrivate |-> FALSE, hasHashName |-> TRUE, isStatic |-> TRUE,
           isReadonly |-> TRUE, initializer |-> NumericLiteral(<<"1">>),
           typeNode |-> NumberKeyword, decorators |-> <<>>,
           range |-> Range(15, 3, 15, 34) ],
         IndexSignature("string", Range(16, 3, 16, 32)),
         [ kind |-> "ClassStaticBlockDeclaration", range |-> Range(17, 3, 17, 12) ] >>,
    range |-> Range(10, 1, 18, 2) ]

\* export interface I<T> { readonly p?: A; m(a: number): void;
\*   [k: string]: number;  an index signature whose key type is not matched }
StmtInterface ==
  [ kind |-> "InterfaceDeclaration", name |-> S("I"),
    isExported |-> TRUE, isDefaultExport |-> FALSE, jsdocs |-> <<>>,
    typeParameters |-> << TypeParam("T", NoNode) >>,
    members |->
      << [ kind |-> "PropertySignature", name |-> "p",
           hasQuestionToken |-> TRUE, isReadonly |-> TRUE,
           typeNode |-> TypeRef("A"), jsdocs |-> <<DocText>>,
           range |-> Range(20, 3, 20, 18) ],
         [ kind |-> "MethodSignature", name |-> "m",
           parameters |-> << Param("a", NumberKeyword, NoNode, FALSE, <<>>,
                                   Range(21, 5, 21, 14)) >>,
           returnTypeNode |-> [kind |-> "VoidKeyword", text |-> "void"],
           hasQuestionToken |-> FALSE, jsdocs |-> <<>>,
           range |-> Range(21, 3, 21, 22) ],
         IndexSignature("string", Range(22, 3, 22, 23)),
         IndexSignature("", Range(23, 3, 23, 15)),
         [ kind |-> "CallSignature", range |-> Range(24, 3, 24, 12) ] >>,
    range |-> Range(19, 1, 25, 2) ]

\* f();
StmtExpression ==
  [ kind |-> "ExpressionStatement", range |-> Range(26, 1, 26, 5) ]

Namespace(n, exported, body, range) ==
  [ kind |-> "ModuleDeclaration", name |-> S(n), isExported |-> exported,
    jsdocs |-> <<DocText>>, body |-> body, range |-> range ]

\* the same statement, dl lines further down
RECURSIVE moveLines(_, _)
moveLines(node, dl) ==
  [f \in DOMAIN node |->
     CASE f = "range" ->
            IF node[f].known
              THEN [node[f] EXCEPT !.start.line = @ + dl, !.end.line = @ + dl]
              ELSE node[f]
       [] f \in ChildFields ->
            [i \in DOMAIN node[f] |-> moveLines(node[f][i], dl)]
       [] OTHER -> node[f]]

\* where the namespaces of the catalogue start
NamespaceStart == [line |-> 30, column |-> 1]

\* namespace All { function f ...  type T ...  enum E ...  class C ...
\*   interface I ...  export default (x) => x;  f(); }
StmtNamespaceAll ==
  Namespace("All", TRUE,
            [i \in 1..7 |->
               moveLines(<< StmtFunctionF, StmtTypeAlias, StmtEnum, StmtClass,
                            StmtInterface, StmtExportArrow,
                            StmtExpression >>[i], NamespaceStart.line)],
            Range(NamespaceStart.line, 1, NamespaceStart.line + 30, 2))

\* namespace N { let a = "x", b, c = f();  namespace N { ... } }, depth deep
RECURSIVE StmtNamespaceNested(_)
StmtNamespaceNested(depth) ==
  Namespace("N", FALSE,
            << moveLines(StmtLetABC, NamespaceStart.line) >>
              \o (IF depth > 1
                    THEN << moveLines(StmtNamespaceNested(depth - 1), 2) >>
                    ELSE <<>>),
            Range(NamespaceStart.line, 3, NamespaceStart.line + 2 * depth + 1, 4))

MaxDepth == 2

MaxStmts == 2

MaxSet == 2

MaxCalls == 2

Statements ==
  { StmtConstPI, StmtLetABC, StmtVarPattern, StmtFunctionF, StmtTypeAlias, StmtEnum,
    StmtExportArrow, StmtExportFunction, StmtExportPI, StmtExportObject,
    StmtExportCall, StmtClass, StmtInterface, StmtExpression,
    StmtNamespaceAll }
    \cup { StmtNamespaceNested(d) : d \in 1..MaxDepth }

\* export const PI = 3.14; whose declaration throws from accessor
ConstPIThrowing(accessor) ==
  [StmtConstPI EXCEPT
     !.declarations[1] = With(@, "throws", {accessor})]

\* the function f whose return type node throws from getText, and whose
\* first parameter throws from getStart
FunctionFThrowing(where) ==
  IF where = "returnTypeNode"
    THEN [StmtFunctionF EXCEPT
            !.returnTypeNode = With(@, "throws", {"getText"})]
    ELSE [StmtFunctionF EXCEPT
            !.parameters[1] = With(@, "throws", {"getStart"})]

FailingStatements ==
  { ConstPIThrowing("getJsDocs"), ConstPIThrowing("getStart"),
    FunctionFThrowing("returnTypeNode"), FunctionFThrowing("parameters") }

\* a failing statement alone, before and after a statement of the catalogue
FailingUnits ==
  { <<f>> : f \in FailingStatements }
    \cup { <<f, st>> : f \in FailingStatements, st \in Statements }
    \cup { <<st, f>> : f \in FailingStatements, st \in Statements }

\* source units of at most n statements
Units(n) == UNION { [1..k -> Statements] : k \in 0..n }

\* the sets of at most n option fields
RECURSIVE FieldSets(_)
FieldSets(n) ==
  IF n = 0 THEN {{}}
  ELSE LET smaller == FieldSets(n - 1)
       IN smaller \cup { K \cup {k} : K \in smaller, k \in OptionKeys }

\* partial configurations that set at most n fields, to values of modes
PartialMaps(n, modes) == UNION { [K -> modes] : K \in FieldSets(n) }

AllInclude == Given([k \in OptionKeys |-> "include"])

\* no configuration, the empty one, every field "include", and the
\* configurations that mark at most MaxSet fields "never" or "only"
Configurations ==
  {NoOptions, AllInclude}
    \cup { Given(m) : m \in PartialMaps(MaxSet, {"never", "only"}) }

\* one field set to a value outside OptionMode, alone or beside one field
\* marked "only"
MalformedConfigurations ==
  { Given(With(m, k, v)) :
      m \in PartialMaps(1, {"only"}), k \in OptionKeys, v \in Malformed }

-----------------------------------------------------------------------------
(* One invocation of parseWithTsMorph, statement by statement.              *)

Invocation(units, configurations) ==
  /\ src \in units
  /\ options \in configurations
  /\ opts = normalizeOptions(options)
  /\ onlyMode = onlyModeOf(opts)
  /\ pos = 1
  /\ out = <<>>
  /\ pc = "loop"
  /\ tree = <<>>
  /\ ret = <<>>
  /\ calls = 0
  /\ stack = <<>>

Init ==
  \/ Invocation(Units(1), Configurations)
  \/ Invocation(Units(MaxStmts), {NoOptions})

InitMalformed == Invocation(Units(1), MalformedConfigurations)

\* runs over a front-end one of whose accessors throws
InitFailing ==
  Invocation(FailingUnits,
             {NoOptions, Given([k \in {"JSDoc"} |-> "never"])})

\* The iterations of `for (const stmt of src.getStatements())`, one action
\* for each branch of the loop body.

\* const vs = stmt.asKind(SyntaxKind.VariableStatement)
VariableStatement ==
  /\ pc = "loop"
  /\ pos <= Len(src)
  /\ src[pos].kind = "VariableStatement"
  /\ ~raises(src[pos], src, opts)
  /\ out' = out \o variableStatementItems(src[pos], opts, onlyMode)
  /\ pos' = pos + 1
  /\ UNCHANGED <<src, options, opts, onlyMode, pc, tree, ret, calls, stack>>

\* const fd = stmt.asKind(SyntaxKind.FunctionDeclaration)
FunctionDeclaration ==
  /\ pc = "loop"
  /\ pos <= Len(src)
  /\ src[pos].kind = "FunctionDeclaration"
  /\ ~raises(src[pos], src, opts)
  /\ out' = out \o functionDeclarationItems(src[pos], opts, onlyMode)
  /\ pos' = pos + 1
  /\ UNCHANGED <<src, options, opts, onlyMode, pc, tree, ret, calls, stack>>

\* const ta = stmt.asKind(SyntaxKind.TypeAliasDeclaration)
TypeAliasDeclaration ==
  /\ pc = "loop"
  /\ pos <= Len(src)
  /\ src[pos].kind = "TypeAliasDeclaration"
  /\ ~raises(src[pos], src, opts)
  /\ out' = out \o typeAliasItems(src[pos], opts, onlyMode)
  /\ pos' = pos + 1
  /\ UNCHANGED <<src, options, opts, onlyMode, pc, tree, ret, calls, stack>>

\* const ed = stmt.asKind(SyntaxKind.EnumDeclaration)
EnumDeclaration ==
  /\ pc = "loop"
  /\ pos <= Len(src)
  /\ src[pos].kind = "EnumDeclaration"
  /\ ~raises(src[pos], src, opts)
  /\ out' = out \o enumItems(src[pos], opts, onlyMode)
  /\ pos' = pos + 1
  /\ UNCHANGED <<src, options, opts, onlyMode, pc, tree, ret, calls, stack>>

\* const ea = stmt.asKind(SyntaxKind.ExportAssignment)
ExportAssignment ==
  /\ pc = "loop"
  /\ pos <= Len(src)
  /\ src[pos].kind = "ExportAssignment"
  /\ ~raises(src[pos], src, opts)
  /\ out' = out \o exportAssignmentItems(src[pos], src, opts, onlyMode)
  /\ pos' = pos + 1
  /\ UNCHANGED <<src, options, opts, onlyMode, pc, tree, ret, calls, stack>>

\* const cd = stmt.asKind(SyntaxKind.ClassDeclaration)
ClassDeclaration ==
  /\ pc = "loop"
  /\ pos <= Len(src)
  /\ src[pos].kind = "ClassDeclaration"
  /\ ~raises(src[pos], src, opts)
  /\ out' = out \o classItems(src[pos], opts, onlyMode)
  /\ pos' = pos + 1
  /\ UNCHANGED <<src, options, opts, onlyMode, pc, tree, ret, calls, stack>>

\* const id = stmt.asKind(SyntaxKind.InterfaceDeclaration)
InterfaceDeclaration ==
  /\ pc = "loop"
  /\ pos <= Len(src)
  /\ src[pos].kind = "InterfaceDeclaration"
  /\ ~raises(src[pos], src, opts)
  /\ out' = out \o interfaceItems(src[pos], opts, onlyMode)
  /\ pos' = pos + 1
  /\ UNCHANGED <<src, options, opts, onlyMode, pc, tree, ret, calls, stack>>

\* const md = stmt.asKind(SyntaxKind.ModuleDeclaration)
ModuleDeclaration ==
  /\ pc = "loop"
  /\ pos <= Len(src)
  /\ src[pos].kind = "ModuleDeclaration"
  /\ ~raises(src[pos], src, opts)
  /\ out' = out \o statementItems(src[pos], src, options, opts, onlyMode)
  /\ pos' = pos + 1
  /\ UNCHANGED <<src, options, opts, onlyMode, pc, tree, ret, calls, stack>>

\* a statement of no recognized kind ends the loop
OtherStatement_Abort ==
  /\ pc = "loop"
  /\ pos <= Len(src)
  /\ src[pos].kind \notin StatementKinds
  /\ pc' = "done"
  /\ UNCHANGED <<src, options, opts, onlyMode, pos, out, tree, ret, calls, stack>>

\* a statement of no recognized kind: the loop body falls through
OtherStatement ==
  /\ pc = "loop"
  /\ pos <= Len(src)
  /\ src[pos].kind \notin StatementKinds
  /\ pos' = pos + 1
  /\ UNCHANGED <<src, options, opts, onlyMode, out, pc, tree, ret, calls, stack>>

\* return out
Return ==
  /\ pc = "loop"
  /\ pos > Len(src)
  /\ pc' = "done"
  /\ UNCHANGED <<src, options, opts, onlyMode, pos, out, tree, ret, calls, stack>>

Next ==
  \/ VariableStatement
  \/ FunctionDeclaration
  \/ TypeAliasDeclaration
  \/ EnumDeclaration
  \/ ExportAssignment
  \/ ClassDeclaration
  \/ InterfaceDeclaration
  \/ ModuleDeclaration
  \/ OtherStatement
  \/ Return

Spec == Init /\ [][Next]_vars

\* an accessor called outside every try throws: the exception leaves the loop
\* and parseWithTsMorph, which returns nothing
AccessorThrows ==
  /\ pc = "loop"
  /\ pos <= Len(src)
  /\ raises(src[pos], src, opts)
  /\ pc' = "thrown"
  /\ UNCHANGED <<src, options, opts, onlyMode, pos, out, tree, ret, calls, stack>>

NextFailing == Next \/ AccessorThrows

SpecFailing == InitFailing /\ [][NextFailing]_vars

SpecMalformed == InitMalformed /\ [][Next]_vars

-----------------------------------------------------------------------------
(* Passes of applyParsedItemOptions over a built tree: a caller holds the   *)
(* tree built from a source unit and maps applyParsedItemOptions over it.   *)

InitApply ==
  /\ src \in Units(1)
  /\ tree = unprunedTree(src)
  /\ options \in Configurations
  /\ opts = normalizeOptions(options)
  /\ onlyMode = onlyModeOf(opts)
  /\ pos = 1
  /\ out = <<>>
  /\ pc = "built"
  /\ ret = <<>>
  /\ calls = 0
  /\ stack = <<>>

\* a variant of the pass that prunes copies and leaves the caller's records
\* as they were
ApplyParsedItemOptions_Copying ==
  /\ pc = "built"
  /\ calls < MaxCalls
  /\ ret' = [i \in DOMAIN tree |-> applyParsedItemOptions(tree[i], opts, onlyMode)]
  /\ calls' = calls + 1
  /\ UNCHANGED <<src, options, opts, onlyMode, pos, out, pc, tree, stack>>

\* tree.map((it) => applyParsedItemOptions(it, opts, onlyMode)): the records
\* of tree are pruned in place and returned
ApplyParsedItemOptions ==
  /\ pc = "built"
  /\ calls < MaxCalls
  /\ tree' = [i \in DOMAIN tree |-> applyParsedItemOptions(tree[i], opts, onlyMode)]
  /\ ret' = tree'
  /\ calls' = calls + 1
  /\ UNCHANGED <<src, options, opts, onlyMode, pos, out, pc, stack>>

NextApply == ApplyParsedItemOptions

SpecApply == InitApply /\ [][NextApply]_vars

-----------------------------------------------------------------------------
(* Calls of the two helpers on one node: parseTypeNode on a type node, with  *)
(* or without an accessor that throws, and literalValueText on an            *)
(* initializer.                                                              *)

LiteralTypeX == [kind |-> "LiteralType", text |-> "\"x\"", literal |-> "\"x\""]

TypeQueryV == [kind |-> "TypeQuery", text |-> "typeof v", exprName |-> "v"]

InferU == [kind |-> "InferType", text |-> "infer U", typeParameter |-> "U"]

ImportTypeM ==
  [kind |-> "ImportType", text |-> "import(\"m\")", argument |-> "\"m\""]

\* the type nodes without operands
Leaves ==
  { NumberKeyword, TypeRef("A"), LiteralTypeX, TypeQueryV, InferU, ImportTypeM }

\* one type node for each arm of the switch that has operands, over x and y;
\* the back quotes of the template literal type are written as quotes
Composites(x, y) ==
  { [kind |-> "UnionType", text |-> x.text \o " | " \o y.text,
     types |-> <<x, y>>],
    [kind |-> "IntersectionType", text |-> x.text \o " & " \o y.text,
     types |-> <<x, y>>],
    [kind |-> "ArrayType", text |-> y.text \o "[]", elementType |-> y],
    [kind |-> "TupleType", text |-> "[" \o x.text \o ", " \o y.text \o "]",
     elements |-> <<x, y>>],
    [kind |-> "OptionalType", text |-> y.text \o "?", type |-> y],
    [kind |-> "RestType", text |-> "..." \o y.text, type |-> y],
    [kind |-> "TemplateLiteralType", text |-> "'a${" \o y.text \o "}b'",
     spans |-> << [type |-> y, literal |-> "}b'"] >>],
    [kind |-> "FunctionType",
     text |-> "(a: " \o x.text \o ") => " \o y.text,
     parameters |-> << [name |-> "a", typeNode |-> x] >>,
     returnType |-> y],
    [kind |-> "FunctionType", text |-> "(a) => " \o y.text,
     parameters |-> << [name |-> "a", typeNode |-> NoNode] >>,
     returnType |-> y],
    [kind |-> "ParenthesizedType", text |-> "(" \o y.text \o ")", type |-> y],
    [kind |-> "TypeReference", text |-> "M<" \o x.text \o ", " \o y.text \o ">",
     typeName |-> "M", typeArguments |-> <<x, y>>],
    [kind |-> "TypeOperator", text |-> "keyof " \o y.text,
     operator |-> "keyof", type |-> y],
    [kind |-> "IndexedAccessType", text |-> x.text \o "[" \o y.text \o "]",
     objectType |-> x, indexType |-> y],
    [kind |-> "MappedType", text |-> "{ [K in A]?: " \o y.text \o " }",
     typeParameter |-> "K in A", nameType |-> NoNode,
     questionToken |-> [kind |-> "QuestionToken", text |-> "?"],
     readonlyToken |-> NoNode, type |-> y],
    [kind |-> "ConditionalType",
     text |-> x.text \o " extends " \o y.text \o " ? " \o y.text \o " : "
                \o x.text,
     checkType |-> x, extendsType |-> y, trueType |-> y, falseType |-> x],
    [kind |-> "TypePredicate", text |-> "v is " \o y.text,
     parameterName |-> "v", hasAssertsKeyword |-> FALSE, type |-> y],
    [kind |-> "TypeLiteral", text |-> "{ p: " \o y.text \o " }",
     members |-> << [name |-> "p", typeNode |-> y, isReadonly |-> FALSE] >>] }

\* the tuple type `[a: number, b?: A, ...c: A[]]`, whose elements are named
\* tuple members
NamedTuple ==
  LET member(name, question, dots, type) ==
        [ kind |-> "NamedTupleMember", name |-> name,
          questionToken |-> question, dotDotDotToken |-> dots,
          typeNode |-> type,
          text |-> (IF dots THEN "..." ELSE "") \o name
                     \o (IF question THEN "?" ELSE "") \o ": " \o type.text ]
  IN [ kind |-> "TupleType", text |-> "[a: number, b?: A, ...c: A[]]",
       elements |-> << member("a", FALSE, FALSE, NumberKeyword),
                       member("b", TRUE, FALSE, TypeRef("A")),
                       member("c", FALSE, TRUE,
                              [kind |-> "ArrayType", text |-> "A[]",
                               elementType |-> TypeRef("A")]) >> ]

\* the accessors of a type node that parseTypeNode calls on every node
NodeAccessors == {"getKindName", "getText", "getKind"}

\* nodes, and each of them with one accessor that throws
OneThrowing(nodes) ==
  nodes \cup { With(n, "throws", {a}) : n \in nodes, a \in NodeAccessors }

\* leaves, composites over leaves and composites over those, with at most
\* one accessor throwing at the top, in an operand or in an operand's operand
TypeNodes ==
  LET inner == UNION { Composites(NumberKeyword, y) :
                         y \in OneThrowing({TypeRef("A")}) }
      middle == UNION { Composites(x, y) :
                          x \in {NumberKeyword, TypeRef("A")},
                          y \in OneThrowing(Leaves) }
      outer == UNION { Composites(TypeRef("A"), y) : y \in inner }
  IN OneThrowing(Leaves \cup middle) \cup outer \cup {NamedTuple}

MaxInitializerLength == 203

\* an initializer that is no simple literal, of n characters
ArrayLiteral(n) ==
  [ kind |-> "ArrayLiteralExpression",
    text |-> [i \in 1..n |-> IF i = 1 THEN "[" ELSE IF i = n THEN "]" ELSE "0"] ]

Initializers ==
  { NumericLiteral(<<"3", ".", "1", "4">>), NumericLiteral(<<"4", "2">>),
    NumericLiteral(<<"1", "_", "0">>), StringLiteralX, TrueKeyword,
    [kind |-> "FalseKeyword", text |-> <<"f", "a", "l", "s", "e">>],
    [kind |-> "NullKeyword", text |-> <<"n", "u", "l", "l">>],
    CallExpression }
    \cup { ArrayLiteral(n) : n \in 2..MaxInitializerLength }

InitHelpers ==
  /\ \/ /\ pc = "parseTypeNode"
        /\ src \in { <<n>> : n \in TypeNodes \cup {NoNode} }
     \/ /\ pc = "literalValueText"
        /\ src \in { <<n>> : n \in Initializers \cup {NoNode} }
  /\ options = NoOptions
  /\ opts = normalizeOptions(options)
  /\ onlyMode = onlyModeOf(opts)
  /\ pos = 1
  /\ out = <<>>
  /\ tree = <<>>
  /\ ret = <<>>
  /\ calls = 0
  /\ stack = <<>>

\* parseTypeNode(node) returns
ParseTypeNode ==
  /\ pc = "parseTypeNode"
  /\ parseTypeNode(src[1]) # Thrown
  /\ ret' = parseTypeNode(src[1])
  /\ pc' = "parseTypeNode.return"
  /\ UNCHANGED <<src, options, opts, onlyMode, pos, out, tree, calls, stack>>

\* parseTypeNode(node) ends in the exception of an accessor read outside its
\* try
ParseTypeNodeThrows ==
  /\ pc = "parseTypeNode"
  /\ parseTypeNode(src[1]) = Thrown
  /\ pc' = "parseTypeNode.throw"
  /\ UNCHANGED <<src, options, opts, onlyMode, pos, out, tree, ret, calls, stack>>

\* literalValueText(init) returns
LiteralValueText ==
  /\ pc = "literalValueText"
  /\ ret' = literalValueText(src[1])
  /\ pc' = "literalValueText.return"
  /\ UNCHANGED <<src, options, opts, onlyMode, pos, out, tree, calls, stack>>

NextHelpers == ParseTypeNode \/ ParseTypeNodeThrows \/ LiteralValueText

SpecHelpers == InitHelpers /\ [][NextHelpers]_vars

-----------------------------------------------------------------------------
(* The recursion of parseTypeNode and of parseWithTsMorph, call by call *)

MaxStack == 6

\* a call of fn on arg that has made none of its recursive calls yet
Frame(fn, arg) == [fn |-> fn, arg |-> arg, at |-> 0]

\* parseTypeNode(node) ends in an exception at once: getKindName or getText
\* throws, before the try is entered
raisesAtOnce(node) ==
  Has(node) /\ (Throws(node, "getKindName") \/ Throws(node, "getText"))

\* every call calling itself on its own argument
callees_Self(frame) == << Frame(frame.fn, frame.arg) >>

\* the recursive calls the call frame makes, in the order in which it makes
\* them when none of them throws: parseTypeNode on the operands its arm
\* reads, parseWithTsMorph on the source file made of each statement of the
\* body of each namespace of its unit
callees(frame) ==
  IF frame.fn = "parseTypeNode"
    THEN IF \/ ~Has(frame.arg)
            \/ raisesAtOnce(frame.arg)
            \/ Throws(frame.arg, "getKind")
           THEN <<>>
           ELSE [i \in DOMAIN operands(frame.arg) |->
                   Frame("parseTypeNode", operands(frame.arg)[i])]
    ELSE Concat([i \in DOMAIN frame.arg |->
                   IF frame.arg[i].kind = "ModuleDeclaration"
                     THEN [j \in DOMAIN frame.arg[i].body |->
                             Frame("parseWithTsMorph",
                                   reparse(frame.arg[i].body[j]))]
                     ELSE <<>>])

\* the call in progress that runs, and the calls that wait for it
running == stack[Len(stack)]

waiting == SubSeq(stack, 1, Len(stack) - 1)

\* before parseTypeNode or parseWithTsMorph is called
InitRecursion ==
  /\ pc = "start"
  /\ src = <<>>
  /\ stack = <<>>
  /\ options = NoOptions
  /\ opts = normalizeOptions(options)
  /\ onlyMode = onlyModeOf(opts)
  /\ pos = 1
  /\ out = <<>>
  /\ tree = <<>>
  /\ ret = <<>>
  /\ calls = 0

\* the first call: parseTypeNode on a type node, parseWithTsMorph on a unit
Enter ==
  /\ pc = "start"
  /\ \/ \E node \in TypeNodes \cup {NoNode} :
          /\ src' = <<node>>
          /\ stack' = << Frame("parseTypeNode", node) >>
     \/ \E unit \in Units(MaxStmts) :
          /\ src' = unit
          /\ stack' = << Frame("parseWithTsMorph", unit) >>
  /\ pc' = "call"
  /\ UNCHANGED <<options, opts, onlyMode, pos, out, tree, ret, calls>>

\* the running call makes its next recursive call
Call ==
  /\ pc = "call"
  /\ Len(stack) < MaxStack
  /\ running.at < Len(callees(running))
  /\ stack' = Append(stack, callees(running)[running.at + 1])
  /\ UNCHANGED <<src, options, opts, onlyMode, pos, out, pc, tree, ret, calls>>

\* the running call returns to the call that made it
ReturnToCaller ==
  /\ pc = "call"
  /\ Len(stack) > 1
  /\ running.at = Len(callees(running))
  /\ ~(running.fn = "parseTypeNode" /\ raisesAtOnce(running.arg))
  /\ stack' = [waiting EXCEPT ![Len(waiting)].at = @ + 1]
  /\ UNCHANGED <<src, options, opts, onlyMode, pos, out, pc, tree, ret, calls>>

\* the running call of parseTypeNode throws into the catch clause of the
\* call that made it, which returns without making another call
Raise ==
  /\ pc = "call"
  /\ Len(stack) > 1
  /\ running.fn = "parseTypeNode"
  /\ raisesAtOnce(running.arg)
  /\ stack' = [waiting EXCEPT
                 ![Len(waiting)].at = Len(callees(waiting[Len(waiting)]))]
  /\ UNCHANGED <<src, options, opts, onlyMode, pos, out, pc, tree, ret, calls>>

\* the first call returns
Finish ==
  /\ pc = "call"
  /\ Len(stack) = 1
  /\ running.at = Len(callees(running))
  /\ ~(running.fn = "parseTypeNode" /\ raisesAtOnce(running.arg))
  /\ stack' = <<>>
  /\ pc' = "returned"
  /\ UNCHANGED <<src, options, opts, onlyMode, pos, out, tree, ret, calls>>

\* the first call of parseTypeNode throws
Escape ==
  /\ pc = "call"
  /\ Len(stack) = 1
  /\ running.fn = "parseTypeNode"
  /\ raisesAtOnce(running.arg)
  /\ stack' = <<>>
  /\ pc' = "thrown"
  /\ UNCHANGED <<src, options, opts, onlyMode, pos, out, tree, ret, calls>>

NextRecursion ==
  Enter \/ Call \/ ReturnToCaller \/ Raise \/ Finish \/ Escape

\* a call in progress is not suspended for ever
SpecRecursion ==
  InitRecursion /\ [][NextRecursion]_vars /\ WF_vars(NextRecursion)

-----------------------------------------------------------------------------
(* The pruning of methods and of parameters, called on one record *)

\* the elements of the list held under key by the item built for stmt
BuiltUnder(stmt, key) ==
  LET list == unprunedTree(<<stmt>>)[1][key].v
  IN { list[i] : i \in DOMAIN list }

\* a method, getter or setter of a class as built; a method of an interface
\* as built; a parameter of a function as built
InitMembers ==
  /\ \/ /\ pc = "applyMethodItemOptions"
        /\ src \in { <<m>> : m \in { r \in BuiltUnder(StmtClass, "items") :
                                        "arguments" \in DOMAIN r } }
     \/ /\ pc = "applyInterfaceMemberMethodOptions"
        /\ src \in { <<m>> : m \in { r \in BuiltUnder(StmtInterface, "members") :
                                        "arguments" \in DOMAIN r } }
     \/ /\ pc = "applyParamOptions"
        /\ src \in { <<param>> : param \in BuiltUnder(StmtFunctionF, "arguments") }
  /\ options \in Configurations
  /\ opts = normalizeOptions(options)
  /\ onlyMode = onlyModeOf(opts)
  /\ pos = 1
  /\ out = <<>>
  /\ tree = <<>>
  /\ ret = <<>>
  /\ calls = 0
  /\ stack = <<>>

\* applyMethodItemOptions(item, opts, onlyMode) returns
ApplyMethodItemOptions ==
  /\ pc = "applyMethodItemOptions"
  /\ ret' = applyMethodItemOptions(src[1], opts, onlyMode)
  /\ pc' = "applyMethodItemOptions.return"
  /\ UNCHANGED <<src, options, opts, onlyMode, pos, out, tree, calls, stack>>

\* applyInterfaceMemberMethodOptions(item, opts, onlyMode) returns
ApplyInterfaceMemberMethodOptions ==
  /\ pc = "applyInterfaceMemberMethodOptions"
  /\ ret' = applyInterfaceMemberMethodOptions(src[1], opts, onlyMode)
  /\ pc' = "applyInterfaceMemberMethodOptions.return"
  /\ UNCHANGED <<src, options, opts, onlyMode, pos, out, tree, calls, stack>>

\* applyParamOptions(param, opts, onlyMode) returns
ApplyParamOptions ==
  /\ pc = "applyParamOptions"
  /\ ret' = applyParamOptions(src[1], opts, onlyMode)
  /\ pc' = "applyParamOptions.return"
  /\ UNCHANGED <<src, options, opts, onlyMode, pos, out, tree, calls, stack>>

NextMembers ==
  ApplyMethodItemOptions \/ ApplyInterfaceMemberMethodOptions
    \/ ApplyParamOptions

SpecMembers == InitMembers /\ [][NextMembers]_vars

-----------------------------------------------------------------------------
(* Properties of the projection policy.                                     *)
(* The policy as section 4 of the specification states it: the field that   *)
(* governs a key of a record is the one the engine's key maps name for a    *)
(* record of that shape.                                                    *)

\* the policy's verdict on a configuration field
Retained(field) ==
  IF onlyMode THEN opts[field] = "only"
  ELSE ~(opts[field] = "never")

\* key |-> governing field, for a record of the given shape
Governing(shape) ==
  CASE shape = "variable" -> baseItemMap @@ variableItemMap
    [] shape = "function" -> baseItemMap @@ functionItemMap
    [] shape = "type-alias" ->
         baseItemMap @@ [target |-> "Target", typeParameters |-> "TypeParameters"]
    [] shape = "enum" ->
         baseItemMap @@ [const |-> "Const", members |-> "Members"]
    [] shape = "class" ->
         baseItemMap @@ [items |-> "Members", typeParameters |-> "TypeParameters"]
    [] shape = "interface" ->
         baseItemMap @@ [members |-> "Members", typeParameters |-> "TypeParameters"]
    [] shape = "namespace" -> baseItemMap @@ [members |-> "Members"]
    [] shape = "param" -> paramMap
    [] shape = "methodParam" -> paramMap @@ [optional |-> "Optional"]
    [] shape = "typeParameter" -> typeParameterMap
    [] shape = "enumMember" -> enumMemberMap
    [] shape = "constructor" -> [for |-> "For", function |-> "Members"]
    [] shape = "method" -> methodItemMap
    [] shape = "indexSignature" -> indexSignatureMap
    [] shape = "classProperty" -> classMemberPropertyMap
    [] shape = "interfaceProperty" -> interfaceMemberPropertyMap
    [] shape = "interfaceMethod" -> interfaceMemberMethodMap
    [] OTHER -> EmptyObject

\* key |-> what the records under that key are, for a record of the shape
Children(shape) ==
  CASE shape = "variable" -> [arguments |-> "param"]
    [] shape = "function" ->
         [arguments |-> "param", typeParameters |-> "typeParameter"]
    [] shape = "type-alias" -> [typeParameters |-> "typeParameter"]
    [] shape = "enum" -> [members |-> "enumMember"]
    [] shape = "class" ->
         [items |-> "classMember", typeParameters |-> "typeParameter"]
    [] shape = "interface" ->
         [members |-> "interfaceMember", typeParameters |-> "typeParameter"]
    [] shape = "namespace" -> [members |-> "item"]
    [] shape = "constructor" -> [function |-> "function"]
    [] shape = "method" ->
         [arguments |-> "methodParam", typeParameters |-> "typeParameter"]
    [] shape = "interfaceMethod" -> [arguments |-> "param"]
    [] OTHER -> EmptyObject

\* the shape of a record as built, read from the unpruned record
ShapeOf(what, rec) ==
  CASE what = "item" -> Get(rec, "type").v
    [] what = "classMember" ->
         IF Get(rec, "type") = S("constructor") THEN "constructor"
         ELSE IF "arguments" \in DOMAIN rec THEN "method"
         ELSE IF "keyType" \in DOMAIN rec THEN "indexSignature"
         ELSE "classProperty"
    [] what = "interfaceMember" ->
         IF "keyType" \in DOMAIN rec THEN "indexSignature"
         ELSE IF "arguments" \in DOMAIN rec THEN "interfaceMethod"
         ELSE "interfaceProperty"
    [] OTHER -> what

\* pruned is what the policy leaves of orig: at this record and at every
\* record below it that the output still holds, a governed key of the unpruned
\* record is present exactly when the policy retains its field
RECURSIVE Conforms(_, _, _)
Conforms(orig, pruned, shape) ==
  LET gov == Governing(shape)
      kids == Children(shape)
  IN /\ \A key \in DOMAIN orig \cap DOMAIN gov :
          (key \in DOMAIN pruned) <=> Retained(gov[key])
     /\ \A key \in DOMAIN kids \cap DOMAIN orig \cap DOMAIN pruned :
          CASE orig[key].t = "array" ->
                 /\ pruned[key].t = "array"
                 /\ Len(pruned[key].v) = Len(orig[key].v)
                 /\ \A i \in DOMAIN orig[key].v :
                      Conforms(orig[key].v[i], pruned[key].v[i],
                               ShapeOf(kids[key], orig[key].v[i]))
            [] orig[key].t = "object" ->
                 /\ pruned[key].t = "object"
                 /\ Conforms(orig[key].v, pruned[key].v,
                             ShapeOf(kids[key], orig[key].v))
            [] OTHER -> TRUE

\* the whole output against the whole unpruned tree
OutputConforms ==
  LET full == unprunedTree(src)
  IN /\ Len(out) = Len(full)
     /\ \A i \in DOMAIN full :
          Conforms(full[i], out[i], ShapeOf("item", full[i]))

\* C1: in only-mode, wherever the unpruned tree has the key of a field F, the
\* output of parseWithTsMorph has that key if and only if F is marked "only";
\* a field marked "include", or left to its default, is dropped like one
\* marked "never".
C1_OnlyModeKeepsExactlyOnlyFields ==
  (pc = "done" /\ onlyMode) => OutputConforms

\* C2: with the configuration {Name: "only"}, every record of the output that
\* had a name in the unpruned tree holds its "name" key, and holds no key but
\* "name" and the type/kind discriminator.  (A record that holds no other key
\* holds no list of nested records, so the top-level records are all the
\* records such an output has.)
C2_NameOnlyKeepsNames ==
  (pc = "done" /\ options = Given([Name |-> "only"])) =>
    LET full == unprunedTree(src)
    IN /\ Len(out) = Len(full)
       /\ \A i \in DOMAIN full :
            /\ Get(full[i], "name").t = "string" => "name" \in DOMAIN out[i]
            /\ DOMAIN out[i] \subseteq {"name", "type", "kind"}

\* C3: when no field is "only", at every record of the output at every depth
\* (items, parameters, type parameters, class, interface and enum members,
\* namespace members however deep) the key governed by a field F is absent
\* if F is "never" and retained otherwise; with Level: "never" no item at
\* any depth carries a level key.
C3_NeverFieldsAbsentEverywhere ==
  (pc = "done" /\ ~onlyMode) => OutputConforms

\* C4: fields the configuration does not mention default to "include": with
\* no configuration, with the empty configuration and with every field set
\* to "include", parseWithTsMorph returns the same output, which is the full
\* unpruned tree.
C4_DefaultsIncludeEverything ==
  (pc = "done" /\ options \in {NoOptions, Given(EmptyObject), AllInclude}) =>
    out = unprunedTree(src)

\* a run under the empty configuration that returned a class with its members
C4_Witness ==
  /\ pc = "done"
  /\ options = Given(EmptyObject)
  /\ Len(out) = 1
  /\ Get(out[1], "type") = S("class")
  /\ Get(out[1], "items").t = "array"

\* the configuration with every malformed value replaced by "include"
WellFormed(o) ==
  IF o.given
    THEN Given([k \in DOMAIN o.map |->
                  IF o.map[k] \in Malformed THEN "include" ELSE o.map[k]])
    ELSE o

\* C5: a malformed or unset value of a field (undefined, null, any value
\* outside never/include/only) is treated exactly as "include": the output
\* equals the output with the field set to "include", and the value does not
\* switch only-mode on.
C5_MalformedValueIsInclude ==
  /\ onlyMode = onlyModeOf(normalizeOptions(WellFormed(options)))
  /\ pc = "done" => out = parseWithTsMorph(src, WellFormed(options))

\* a finished run whose configuration holds a value outside the three modes
\* and no "only", and that returned an item
C5_Witness ==
  /\ pc = "done"
  /\ \E k \in DOMAIN options.map : options.map[k] = BogusMode
  /\ ~onlyMode
  /\ Len(out) = 1
  /\ "name" \in DOMAIN out[1]

\* C6: projection is idempotent: applying applyParsedItemOptions with the
\* same configuration to an already-pruned tree leaves it as it is, also
\* when the first pass removed the keys the dispatch reads (type, arguments,
\* keyType).
C6_ProjectionIdempotent ==
  [][(calls >= 1 /\ calls' = calls + 1) => tree' = tree]_vars

\* after two passes: a class that kept its type, with a method the first pass
\* stripped of its arguments, so that the second pass took it for a property
C6_Witness ==
  /\ calls = 2
  /\ \E i \in DOMAIN tree :
       /\ Get(tree[i], "type") = S("class")
       /\ Get(tree[i], "items").t = "array"
       /\ \E j \in DOMAIN tree[i]["items"].v :
            LET m == tree[i]["items"].v[j]
            IN "returnTypeAst" \in DOMAIN m /\ "arguments" \notin DOMAIN m

\* pruned is orig with keys removed and nothing else changed: every key of
\* pruned is a key of orig with the same value, where lists of records keep
\* their length and order and hold prunings of the records they held
RECURSIVE IsPruningOf(_, _)
IsPruningOf(pruned, orig) ==
  /\ DOMAIN pruned \subseteq DOMAIN orig
  /\ \A key \in DOMAIN pruned :
       LET a == pruned[key]
           b == orig[key]
       IN \/ a = b
          \/ /\ a.t = "array" /\ b.t = "array"
             /\ Len(a.v) = Len(b.v)
             /\ \A i \in DOMAIN a.v : IsPruningOf(a.v[i], b.v[i])
          \/ /\ a.t = "object" /\ b.t = "object"
             /\ IsPruningOf(a.v, b.v)

\* C7: projection only removes keys: every key that remains in a record of
\* the projected tree was a key of the corresponding input record and has
\* the identical value; nothing is added, renamed or recomputed and the
\* order of list elements is unchanged.
C7_ProjectionOnlyRemovesKeys ==
  [][(calls' = calls + 1) =>
       /\ Len(tree') = Len(tree)
       /\ \A i \in DOMAIN tree : IsPruningOf(tree'[i], tree[i])]_vars

\* after a pass: a function that kept its two parameters in order, each
\* stripped of a key
C7_Witness ==
  /\ calls = 1
  /\ \E i \in DOMAIN tree :
       /\ Get(tree[i], "type") = S("function")
       /\ Get(tree[i], "arguments").t = "array"
       /\ Len(tree[i]["arguments"].v) = 2
       /\ \A j \in 1..2 : "loc" \notin DOMAIN tree[i]["arguments"].v[j]
       /\ Get(tree[i]["arguments"].v[1], "name") = S("a")
       /\ Get(tree[i]["arguments"].v[2], "name") = S("b")

PolicyResolved ==
  /\ onlyMode <=>
       (options.given /\ \E k \in DOMAIN options.map : options.map[k] = "only")
  /\ \A k \in OptionKeys :
       opts[k] = IF options.given /\ k \in DOMAIN options.map
                   THEN options.map[k] ELSE "include"
  /\ nestedOptions(options) = options

\* C9: only-mode is one boolean resolved once per invocation of
\* parseWithTsMorph: it is true if and only if some field of the
\* configuration is "only", and it and the policy stay the same for every
\* record pruned during the invocation, the recursive extraction of namespace
\* bodies at any depth included.
C9_OnlyModeResolvedOnce ==
  [][/\ PolicyResolved
     /\ options' = options
     /\ opts' = opts
     /\ onlyMode' = onlyMode]_vars

\* a finished only-mode run over namespaces nested MaxDepth deep, whose only
\* "only" is at a field other than the first
C9_Witness ==
  /\ pc = "done"
  /\ onlyMode
  /\ opts["JSDoc"] # "only"
  /\ src = << StmtNamespaceNested(MaxDepth) >>

-----------------------------------------------------------------------------
(* Properties of the extractor.                                             *)

DefaultConfiguration == \A k \in OptionKeys : opts[k] = "include"

\* item, the function items its constructor members carry, and the items
\* below it have the level their place calls for: that of item is level, that
\* of everything unpacked from a namespace body is "sub"
RECURSIVE LevelsAre(_, _)
LevelsAre(item, level) ==
  /\ Get(item, "level") = S(level)
  /\ Get(item, "type") = S("class") =>
       \A j \in DOMAIN ListOf(item, "items") :
         LET m == item["items"].v[j]
         IN Get(m, "type") = S("constructor") =>
              Get(m["function"].v, "level") = S(level)
  /\ Get(item, "type") = S("namespace") =>
       \A j \in DOMAIN ListOf(item, "members") :
         LevelsAre(item["members"].v[j], "sub")

\* C11: under the default configuration every item produced while unpacking
\* a namespace body, at any depth, has level "sub", and every item produced
\* outside any namespace has level "top", the function item of a constructor
\* member of a top-level class included.
C11_LevelFollowsNamespaceNesting ==
  (pc = "done" /\ DefaultConfiguration) =>
    \A i \in DOMAIN out : LevelsAre(out[i], "top")

\* the statements of the unit that are `export default X` with X the name of
\* a variable the unit declares
DefaultExportAliases ==
  { j \in DOMAIN src :
      /\ src[j].kind = "ExportAssignment"
      /\ Has(src[j].expression)
      /\ src[j].expression.kind = "Identifier"
      /\ Has(getVariableDeclaration(src, src[j].expression.text)) }

ItemsNamed(name) == SelectSeq(out, LAMBDA it : Get(it, "name") = S(name))

\* C12: under the default configuration, `export default X` for a variable X
\* declared in the unit adds no item: the output holds exactly one item
\* named X, the declaration's own item, and its exports field is "default".
C12_DefaultExportRelabelsDeclaration ==
  (pc = "done" /\ DefaultConfiguration) =>
    \A j \in DefaultExportAliases :
      LET named == ItemsNamed(src[j].expression.text)
      IN /\ Len(named) = 1
         /\ Get(named[1], "exports") = S("default")

\* the statement the loop is at is an export assignment of a function
\* expression or an arrow function
AtFunctionExport ==
  /\ pc = "loop"
  /\ pos <= Len(src)
  /\ src[pos].kind = "ExportAssignment"
  /\ Has(src[pos].expression)
  /\ src[pos].expression.kind \in {"FunctionExpression", "ArrowFunction"}

\* C13: under the default configuration, the iteration over an export
\* assignment whose expression is a function expression or an arrow
\* function appends exactly one item to the output, after the items of the
\* statements before it; the item has type "function" and exports
\* "default".
C13_FunctionExportEmitsOneDefaultFunction ==
  [][(AtFunctionExport /\ DefaultConfiguration /\ pos' = pos + 1) =>
       /\ Len(out') = Len(out) + 1
       /\ SubSeq(out', 1, Len(out)) = out
       /\ Get(out'[Len(out')], "type") = S("function")
       /\ Get(out'[Len(out')], "exports") = S("default")]_vars

\* `function f() {}` then `export = function g(y) {}`: the second item of the
\* output is the function g, exported as default
C13_Witness ==
  /\ DefaultConfiguration
  /\ src = <<StmtFunctionF, StmtExportFunction>>
  /\ pos = 3
  /\ Len(out) = 2
  /\ Get(out[2], "name") = S("g")
  /\ Get(out[2], "type") = S("function")
  /\ Get(out[2], "exports") = S("default")

\* the names the unit declares at its top level
DeclaredNames(unit) ==
  { S(variableDeclarations(unit)[i].name) :
       i \in DOMAIN variableDeclarations(unit) }
    \cup ({ Get(unit[i], "name") : i \in DOMAIN unit } \ {Undef})

\* an export assignment whose expression is neither a function expression or
\* arrow function nor the name of a declaration of the unit
OtherExport(stmt, unit) ==
  /\ stmt.kind = "ExportAssignment"
  /\ Has(stmt.expression)
  /\ stmt.expression.kind \notin {"FunctionExpression", "ArrowFunction"}
  /\ S(stmt.expression.text) \notin DeclaredNames(unit)

\* C14: an export assignment whose expression is neither a function or arrow
\* literal nor a reference to a declared name contributes no item, and the
\* items of the other statements are not affected: the output of a finished
\* run is the output for the unit with those export assignments taken out.
C14_OtherExportsContributeNothing ==
  pc = "done" =>
    out = parseWithTsMorph(
            SelectSeq(src, LAMBDA stmt : ~OtherExport(stmt, src)), options)

\* `export default f();` before a variable statement of three declarations:
\* the output holds the three variable items only
C14_Witness ==
  /\ pc = "done"
  /\ options = NoOptions
  /\ src = <<StmtExportCall, StmtLetABC>>
  /\ Len(out) = 3
  /\ Get(out[1], "name") = S("a")

\* what identifies a member record, and the member node it is built from:
\* the name, "constructor" for a constructor, the key type for an index
\* signature
LabelOfItem(m) ==
  IF "name" \in DOMAIN m THEN m["name"]
  ELSE IF Get(m, "type") = S("constructor") THEN S("constructor")
  ELSE [index |-> Get(m, "keyType")]

LabelOfNode(n) ==
  IF n.kind = "Constructor" THEN S("constructor")
  ELSE IF n.kind = "IndexSignature"
    THEN [index |-> IF n.keyMatch = "" THEN Undef ELSE S(n.keyMatch)]
  ELSE S(n.name)

\* the names of the items a statement gives rise to, in source order
NamesDeclaredBy(stmt, unit) ==
  CASE stmt.kind = "VariableStatement" ->
         [i \in DOMAIN stmt.declarations |-> S(stmt.declarations[i].name)]
    [] stmt.kind \in {"FunctionDeclaration", "TypeAliasDeclaration",
                      "EnumDeclaration", "ClassDeclaration",
                      "InterfaceDeclaration", "ModuleDeclaration"} ->
         << stmt.name >>
    [] stmt.kind = "ExportAssignment" ->
         IF stmt.expression.kind \in {"FunctionExpression", "ArrowFunction"}
           THEN << Coalesce(stmt.expression.name, NullV) >>
           ELSE IF \E i \in DOMAIN unit :
                     /\ unit[i].kind = "VariableStatement"
                     /\ \E d \in DOMAIN unit[i].declarations :
                          unit[i].declarations[d].name = stmt.expression.text
                  THEN << S(stmt.expression.text) >>
                  ELSE <<>>
    [] OTHER -> <<>>

RECURSIVE InSourceOrder(_, _, _)

\* the members of item are those of the statement it is built from, in the
\* order of the source
MembersInSourceOrder(item, stmt) ==
  CASE stmt.kind = "EnumDeclaration" ->
         [i \in DOMAIN ListOf(item, "members") |->
            LabelOfItem(ListOf(item, "members")[i])]
           = [i \in DOMAIN stmt.members |-> S(stmt.members[i].name)]
    [] stmt.kind = "ClassDeclaration" ->
         [i \in DOMAIN ListOf(item, "items") |->
            LabelOfItem(ListOf(item, "items")[i])]
           = LET nodes == SelectSeq(stmt.members,
                                    LAMBDA n : n.kind \in ClassMemberKinds)
             IN [i \in DOMAIN nodes |-> LabelOfNode(nodes[i])]
    [] stmt.kind = "InterfaceDeclaration" ->
         [i \in DOMAIN ListOf(item, "members") |->
            LabelOfItem(ListOf(item, "members")[i])]
           = LET nodes == SelectSeq(stmt.members,
                                    LAMBDA n : n.kind \in InterfaceMemberKinds)
             IN [i \in DOMAIN nodes |-> LabelOfNode(nodes[i])]
    [] stmt.kind = "ModuleDeclaration" ->
         InSourceOrder(ListOf(item, "members"), stmt.body, stmt.body)
    [] OTHER -> TRUE

\* items holds, statement after statement of stmts, the items of each
\* statement, and the members of each item are in source order too
InSourceOrder(items, stmts, unit) ==
  IF stmts = <<>> THEN items = <<>>
  ELSE LET names == NamesDeclaredBy(Head(stmts), unit)
           n == Len(names)
       IN /\ Len(items) >= n
          /\ [i \in 1..n |-> Get(items[i], "name")] = names
          /\ \A i \in 1..n : MembersInSourceOrder(items[i], Head(stmts))
          /\ InSourceOrder(SubSeq(items, n + 1, Len(items)), Tail(stmts), unit)

\* C15: under the default configuration the output of a finished run holds
\* the items of the first statement, then those of the second, and so on,
\* and the members of every namespace, class, interface and enum item are in
\* the order of their members in the source.
C15_OutputInSourceOrder ==
  (pc = "done" /\ DefaultConfiguration) => InSourceOrder(out, src, src)

\* an enum after a class: the class item comes first with its constructor
\* before its method, the enum item second with member A before member B
C15_Witness ==
  /\ pc = "done"
  /\ DefaultConfiguration
  /\ src = <<StmtClass, StmtEnum>>
  /\ Len(out) = 2
  /\ Get(out[1], "type") = S("class")
  /\ Get(out[1]["items"].v[1], "type") = S("constructor")
  /\ Get(out[1]["items"].v[2], "name") = S("m")
  /\ Get(out[2]["members"].v[1], "name") = S("A")
  /\ Get(out[2]["members"].v[2], "name") = S("B")

\* the loop is at a statement of a kind outside the recognized set
AtUnrecognizedStatement ==
  /\ pc = "loop"
  /\ pos <= Len(src)
  /\ src[pos].kind \notin
       { "VariableStatement", "FunctionDeclaration", "TypeAliasDeclaration",
         "EnumDeclaration", "ExportAssignment", "ClassDeclaration",
         "InterfaceDeclaration", "ModuleDeclaration" }

\* C16: a statement of a kind outside the recognized set is skipped: its
\* iteration emits nothing and the loop goes on to the next statement, and
\* the output of a finished run is the output for the unit without the
\* statements of unrecognized kinds.
C16_UnrecognizedStatementsSkipped ==
  /\ [][AtUnrecognizedStatement =>
          (pc' = "loop" /\ pos' = pos + 1 /\ out' = out)]_vars
  /\ [](pc = "done" =>
          out = parseWithTsMorph(
                  SelectSeq(src, LAMBDA stmt : stmt.kind \in StatementKinds),
                  options))

\* `f();` between nothing and a class: the finished run holds the class item
C16_Witness ==
  /\ pc = "done"
  /\ src = <<StmtExpression, StmtClass>>
  /\ Len(out) = 1
  /\ Get(out[1], "type") = S("class")

\* node with no accessor throwing, in it and in the nodes below it
RECURSIVE Healed(_)
Healed(node) ==
  [f \in (DOMAIN node) \ {"throws"} |->
     IF f \in {"declarations", "parameters", "members"}
       THEN [i \in DOMAIN node[f] |-> Healed(node[f][i])]
       ELSE IF f \in {"typeNode", "returnTypeNode"} THEN Healed(node[f])
       ELSE node[f]]

\* the output for the unit had no accessor thrown
OutputWithoutFailure ==
  parseWithTsMorph([i \in DOMAIN src |-> Healed(src[i])], options)

\* got is the record expected where some fields, in it or in the records
\* below it, are absent: the key is missing or its value is undefined
RECURSIVE LacksFieldsOf(_, _)
LacksFieldsOf(got, expected) ==
  /\ DOMAIN got \subseteq DOMAIN expected
  /\ \A key \in DOMAIN got :
       LET a == got[key]
           b == expected[key]
       IN \/ a = b
          \/ a = Undef
          \/ /\ a.t = "array" /\ b.t = "array"
             /\ Len(a.v) = Len(b.v)
             /\ \A i \in DOMAIN a.v : LacksFieldsOf(a.v[i], b.v[i])
          \/ /\ a.t = "object" /\ b.t = "object"
             /\ LacksFieldsOf(a.v, b.v)

\* out is the output without the failure, less the fields the failure affects
FailureCostsFieldsOnly ==
  /\ Len(out) = Len(OutputWithoutFailure)
  /\ \A i \in DOMAIN out : LacksFieldsOf(out[i], OutputWithoutFailure[i])

\* C17: when an accessor of the front-end throws while a statement or one of
\* its attributes is extracted, parseWithTsMorph does not end in the
\* exception: it returns, and what it returns is the output without the
\* failure, less the affected fields.
C17_AccessorFailureIsolated ==
  /\ pc # "thrown"
  /\ pc = "done" => FailureCostsFieldsOnly

\* what the code does isolate: a throw inside locOf costs the loc field only
C17_LocFailureIsolated ==
  pc = "done" => FailureCostsFieldsOnly

-----------------------------------------------------------------------------
(* Properties of the helpers.                                               *)

\* the node kinds the switch of parseTypeNode has an arm for
DispatchedKinds ==
  { "UnionType", "IntersectionType", "ArrayType", "TupleType", "OptionalType",
    "RestType", "LiteralType", "TemplateLiteralType", "FunctionType",
    "ParenthesizedType", "TypeReference", "TypeOperator", "IndexedAccessType",
    "MappedType", "ConditionalType", "TypePredicate", "TypeQuery", "InferType",
    "TypeLiteral", "ImportType" }

\* an accessor throws while node is inspected: one of its own, or the kind or
\* text accessor of one of its operands
FailsWithin(node) ==
  \/ \E a \in NodeAccessors : Throws(node, a)
  \/ \E i \in DOMAIN operands(node) :
       \/ Throws(operands(node)[i], "getKindName")
       \/ Throws(operands(node)[i], "getText")

\* the record a call of parseTypeNode on a present node returned is the one
\* required: the fallback for a kind outside the table, the fallback with a
\* diagnostic after a failure
DegradedAsRequired ==
  (pc = "parseTypeNode.return" /\ Has(src[1])) =>
    /\ ret.t = "object"
    /\ (src[1].kind \notin DispatchedKinds \/ FailsWithin(src[1])) =>
         /\ Get(ret.v, "kind") = S("unknown")
         /\ Get(ret.v, "text") = S(src[1].text)
    /\ FailsWithin(src[1]) => Get(ret.v, "error").t = "string"

\* C18: parseTypeNode never ends in an exception, whatever accessor of the
\* node throws, the ones that yield its kind and its text included; for a
\* present node it returns a record, which for a kind outside the dispatch
\* table has kind "unknown" and the node's text, and after a failure has
\* kind "unknown", the text and a diagnostic string.
C18_TypeNormalizationTotal ==
  /\ pc # "parseTypeNode.throw"
  /\ DegradedAsRequired

\* what the record rec built for node holds for the operands of node, in the
\* order of operands(node)
OperandValues(rec, node) ==
  LET k == node.kind
      each(list) == [i \in DOMAIN list.v |-> O(list.v[i])]
  IN CASE k \in {"UnionType", "IntersectionType"} -> each(rec["types"])
       [] k = "ArrayType" -> << rec["element"] >>
       [] k = "TupleType" -> each(rec["elements"])
       [] k \in {"OptionalType", "RestType", "ParenthesizedType",
                 "TypeOperator", "MappedType", "TypePredicate"} ->
            << rec["type"] >>
       [] k = "TemplateLiteralType" ->
            [i \in DOMAIN rec["spans"].v |-> rec["spans"].v[i]["type"]]
       [] k = "FunctionType" ->
            [i \in DOMAIN rec["parameters"].v |->
               rec["parameters"].v[i]["typeAst"]]
              \o << rec["returnTypeAst"] >>
       [] k = "TypeReference" -> each(rec["typeArguments"])
       [] k = "IndexedAccessType" -> << rec["objectType"], rec["indexType"] >>
       [] k = "ConditionalType" ->
            << rec["checkType"], rec["extendsType"], rec["trueType"],
               rec["falseType"] >>
       [] k = "TypeLiteral" ->
            [i \in DOMAIN rec["properties"].v |->
               rec["properties"].v[i]["typeAst"]]
       [] OTHER -> <<>>

\* val is undefined for an absent node; for a present one it is a record with
\* a kind and with the text of the node, and unless it is the fallback
\* record the same holds of what it carries for each operand of the node
RECURSIVE KindAndTextThroughout(_, _)
KindAndTextThroughout(val, node) ==
  IF ~Has(node) THEN val = Undef
  ELSE /\ val.t = "object"
       /\ Get(val.v, "kind").t = "string"
       /\ Get(val.v, "text") = S(node.text)
       /\ Get(val.v, "kind") # S("unknown") =>
            /\ Len(OperandValues(val.v, node)) = Len(operands(node))
            /\ \A i \in DOMAIN operands(node) :
                 KindAndTextThroughout(OperandValues(val.v, node)[i],
                                       operands(node)[i])

\* C19: what parseTypeNode returns for an absent node is undefined; the
\* record it returns for a present node holds a kind and the text of the
\* node as the front-end renders it, and so does, recursively, the record of
\* every operand.
C19_RecordsCarryKindAndText ==
  pc = "parseTypeNode.return" => KindAndTextThroughout(ret, src[1])

\* `A[number | A]`: an indexed access whose index is a union, each record
\* with the text of its own node
C19_Witness ==
  /\ pc = "parseTypeNode.return"
  /\ src[1].kind = "IndexedAccessType"
  /\ src[1].indexType.kind = "UnionType"
  /\ ret.v["text"] = S("A[number | A]")
  /\ ret.v["indexType"].v["text"] = S("number | A")
  /\ ret.v["indexType"].v["types"].v[2]["text"] = S("A")

\* the absent node
C19_WitnessAbsent ==
  /\ pc = "parseTypeNode.return"
  /\ ~Has(src[1])
  /\ ret = Undef

\* C20: literalValueText returns for every initializer: undefined for an
\* absent one, the string value for a string literal, a number for a numeric
\* literal (42 for `42`, 3.14 for `3.14`), true, false and null for the three
\* keywords, and for any other initializer its source text cut to at most
\* 200 characters.
C20_LiteralParsing ==
  pc = "literalValueText.return" =>
    LET init == src[1]
    IN CASE ~Has(init) -> ret = Undef
         [] init.kind = "StringLiteral" ->
              ret = S(SubSeq(init.text, 2, Len(init.text) - 1))
         [] init.kind = "NumericLiteral" ->
              /\ ret.t = "number"
              /\ init.text = <<"4", "2">> => ret.v = [m |-> 42, e |-> 0]
              /\ init.text = <<"3", ".", "1", "4">> => ret.v = [m |-> 314, e |-> 2]
         [] init.kind = "TrueKeyword" -> ret = B(TRUE)
         [] init.kind = "FalseKeyword" -> ret = B(FALSE)
         [] init.kind = "NullKeyword" -> ret = NullV
         [] OTHER ->
              /\ ret.t = "string"
              /\ Len(ret.v) <= 200
              /\ ret.v = SubSeq(init.text, 1, Len(ret.v))
              /\ Len(init.text) <= 200 => ret.v = init.text

\* an array literal of 201 characters: its first 200 are returned
C20_Witness ==
  /\ pc = "literalValueText.return"
  /\ src[1].kind = "ArrayLiteralExpression"
  /\ Len(src[1].text) = 201
  /\ ret.t = "string"
  /\ Len(ret.v) = 200

-----------------------------------------------------------------------------
(* Properties of the items.                                                 *)

\* val is the record of the union of the references A and B, in that order
IsUnionOfAB(val) ==
  /\ val.t = "object"
  /\ Get(val.v, "kind") = S("union")
  /\ Get(val.v, "types").t = "array"
  /\ Len(val.v["types"].v) = 2
  /\ \A i \in 1..2 :
       /\ Get(val.v["types"].v[i], "kind") = S("reference")
       /\ Get(val.v["types"].v[i], "name") = S(<<"A", "B">>[i])

\* C21: under the default configuration the item of `type T<K> = A | B;`
\* carries, in one of its fields, the normalized type expression of its
\* target: the record of kind "union" whose types are the reference records
\* of A and B, in that order.
C21_TypeAliasCarriesNormalizedTarget ==
  (pc = "done" /\ DefaultConfiguration) =>
    \A i \in DOMAIN src :
      src[i] = StmtTypeAlias =>
        \E j \in DOMAIN out :
          /\ Get(out[j], "type") = S("type-alias")
          /\ Get(out[j], "name") = S("T")
          /\ \E key \in DOMAIN out[j] : IsUnionOfAB(out[j][key])

\* what the item does carry: the text of the target
C21_TypeAliasCarriesTargetText ==
  (pc = "done" /\ DefaultConfiguration) =>
    \A i \in DOMAIN src :
      src[i] = StmtTypeAlias =>
        \E j \in DOMAIN out :
          /\ Get(out[j], "type") = S("type-alias")
          /\ Get(out[j], "name") = S("T")
          /\ Get(out[j], "target") = S("A | B")
          /\ IsUnionOfAB(parseTypeNode(src[i].typeNode))

\* the loop is at a function declaration that is the default export
AtDefaultFunction ==
  /\ pc = "loop"
  /\ pos <= Len(src)
  /\ src[pos].kind = "FunctionDeclaration"
  /\ src[pos].isDefaultExport

\* C22: under the default configuration the iteration over a function
\* declaration that is the default export appends exactly one item; its type
\* is "function", its exports is "default" although the declaration is
\* exported too, its arguments are one record for each declared parameter,
\* in order, with the parameter's name and the text of its type, and its
\* returnType is the text of the declared return type.
C22_DefaultFunctionItem ==
  [][(AtDefaultFunction /\ DefaultConfiguration /\ pos' = pos + 1) =>
       LET fd == src[pos]
           item == out'[Len(out')]
       IN /\ Len(out') = Len(out) + 1
          /\ SubSeq(out', 1, Len(out)) = out
          /\ Get(item, "type") = S("function")
          /\ Get(item, "exports") = S("default")
          /\ Get(item, "arguments").t = "array"
          /\ Len(item["arguments"].v) = Len(fd.parameters)
          /\ \A i \in DOMAIN fd.parameters :
               /\ Get(item["arguments"].v[i], "name") = S(fd.parameters[i].name)
               /\ Get(item["arguments"].v[i], "type")
                    = IF Has(fd.parameters[i].typeNode)
                        THEN S(fd.parameters[i].typeNode.text) ELSE Undef
          /\ Get(item, "returnType") = S(fd.returnTypeNode.text)]_vars

\* `export default function f<T extends A>(a: number, b = true): string {}`
C22_Witness ==
  /\ DefaultConfiguration
  /\ src = <<StmtFunctionF>>
  /\ pos = 2
  /\ Len(out) = 1
  /\ Get(out[1], "exports") = S("default")
  /\ Get(out[1]["arguments"].v[1], "name") = S("a")
  /\ Get(out[1]["arguments"].v[1], "type") = S("number")
  /\ Get(out[1]["arguments"].v[2], "name") = S("b")
  /\ Get(out[1], "returnType") = S("string")

\* the loop is at a variable statement
AtVariableStatement ==
  /\ pc = "loop"
  /\ pos <= Len(src)
  /\ src[pos].kind = "VariableStatement"

\* C23: under the default configuration the iteration over a variable
\* statement appends, for each declaration, an item of type "variable" with
\* the declared name, with subtype "constant" for const, "let" for let and
\* "var" otherwise, and with exports "default" for a default export, else
\* "normal" for an exported statement, else "none"; `export const PI = 3.14;`
\* gives exactly one item, named PI, of subtype "constant", exports "normal"
\* and value 3.14.
C23_VariableItem ==
  [][(AtVariableStatement /\ DefaultConfiguration /\ pos' = pos + 1) =>
       LET vs == src[pos]
           n == Len(vs.declarations)
       IN /\ Len(out') = Len(out) + n
          /\ \A i \in 1..n :
               LET item == out'[Len(out) + i]
               IN /\ Get(item, "name") = S(vs.declarations[i].name)
                  /\ Get(item, "type") = S("variable")
                  /\ Get(item, "subtype")
                       = CASE vs.declarationKind = "const" -> S("constant")
                           [] vs.declarationKind = "let" -> S("let")
                           [] OTHER -> S("var")
                  /\ Get(item, "exports")
                       = IF vs.isDefaultExport THEN S("default")
                         ELSE IF vs.isExported THEN S("normal") ELSE S("none")
          /\ vs = StmtConstPI =>
               Get(out'[Len(out')], "value") = N([m |-> 314, e |-> 2])]_vars

\* `export const PI = 3.14;` alone
C23_Witness ==
  /\ DefaultConfiguration
  /\ src = <<StmtConstPI>>
  /\ pos = 2
  /\ Len(out) = 1
  /\ Get(out[1], "name") = S("PI")
  /\ Get(out[1], "subtype") = S("constant")
  /\ Get(out[1], "exports") = S("normal")
  /\ Get(out[1], "value") = N([m |-> 314, e |-> 2])

\* the keys of the optional attributes: documentation, decorators, type
\* annotation, type parameters, return type, initializer
OptionalAttributeKeys ==
  { "jsdoc", "decorators", "type", "typeAst", "typeParameters", "returnType",
    "returnTypeAst", "value", "valueText", "valueParsed", "default",
    "defaultParsed", "constraint" }

RECURSIVE NowhereNull(_)
RECURSIVE NowhereEmptyDoc(_)

\* no record of the tree under rec has an optional attribute that is null
NowhereNull(rec) ==
  \A key \in DOMAIN rec :
    /\ key \in OptionalAttributeKeys => rec[key] # NullV
    /\ rec[key].t = "object" => NowhereNull(rec[key].v)
    /\ rec[key].t = "array" =>
         \A i \in DOMAIN rec[key].v :
           "t" \notin DOMAIN rec[key].v[i] => NowhereNull(rec[key].v[i])

\* no record of the tree under rec has the empty text for its jsdoc
NowhereEmptyDoc(rec) ==
  \A key \in DOMAIN rec :
    /\ key = "jsdoc" => rec[key] # S(<<>>)
    /\ rec[key].t = "object" => NowhereEmptyDoc(rec[key].v)
    /\ rec[key].t = "array" =>
         \A i \in DOMAIN rec[key].v :
           "t" \notin DOMAIN rec[key].v[i] => NowhereEmptyDoc(rec[key].v[i])

\* C24: in every record of the output, under every configuration, an
\* optional attribute of a construct that has none is omitted: its key is
\* missing or undefined, never null, and a construct without a documentation
\* comment has no jsdoc text, not even the empty one.
C24_AbsentAttributesOmitted ==
  pc = "done" =>
    \A i \in DOMAIN out : NowhereNull(out[i]) /\ NowhereEmptyDoc(out[i])

\* the part that holds: no optional attribute is null
C24_NoNullAttribute ==
  pc = "done" => \A i \in DOMAIN out : NowhereNull(out[i])

\* a call of parseTypeNode has returned for a node of a kind of the table,
\* none of whose own accessors throws, with an operand one of whose
\* accessors in failing does
OperandFailed(failing) ==
  /\ pc = "parseTypeNode.return"
  /\ Has(src[1])
  /\ src[1].kind \in DispatchedKinds
  /\ \A a \in NodeAccessors : ~Throws(src[1], a)
  /\ \E i \in DOMAIN operands(src[1]) :
       \E a \in failing : Throws(operands(src[1])[i], a)

\* the record returned keeps its kind, holds an "unknown" record for each
\* operand with a throwing accessor and, for every other operand, the record
\* of that operand
OnlyOperandDegraded ==
  LET node == src[1]
  IN /\ Get(ret.v, "kind") # S("unknown")
     /\ \A i \in DOMAIN operands(node) :
          LET operand == operands(node)[i]
              held == OperandValues(ret.v, node)[i]
          IN IF \E a \in NodeAccessors : Throws(operand, a)
               THEN held.t = "object" /\ Get(held.v, "kind") = S("unknown")
               ELSE held = parseTypeNode(operand)

\* C25: when inspecting one operand of a composite type fails, whichever
\* accessor of the operand throws, only the record of that operand becomes
\* an "unknown" record: the enclosing record keeps its kind and the records
\* of its other operands.
C25_FailureConfinedToOperand ==
  OperandFailed(NodeAccessors) => OnlyOperandDegraded

\* what holds: a throw from getKind, read inside the operand's own try
C25_GetKindFailureConfined ==
  OperandFailed({"getKind"}) => OnlyOperandDegraded

\* a call of parseTypeNode has returned for a tuple type none of whose
\* accessors throws, nor any of its elements'
TupleReturned ==
  /\ pc = "parseTypeNode.return"
  /\ Has(src[1])
  /\ src[1].kind = "TupleType"
  /\ \A a \in NodeAccessors :
       /\ ~Throws(src[1], a)
       /\ \A i \in DOMAIN src[1].elements : ~Throws(src[1].elements[i], a)

\* the record returned is a "tuple" record with one element record for each
\* written element, in the written order
TupleElementsAligned ==
  /\ Get(ret.v, "kind") = S("tuple")
  /\ Get(ret.v, "elements").t = "array"
  /\ Len(ret.v["elements"].v) = Len(src[1].elements)

\* the element record rec describes the written element: a named member by
\* its name, its flags and its normalized type, any other element by its
\* normalized type
DescribesElement(rec, element) ==
  IF element.kind = "NamedTupleMember"
    THEN /\ Get(rec, "name") = S(element.name)
         /\ Get(rec, "optional") = B(element.questionToken)
         /\ Get(rec, "rest") = B(element.dotDotDotToken)
         /\ Get(rec, "type") = parseTypeNode(element.typeNode)
    ELSE \/ O(rec) = parseTypeNode(element)
         \/ Get(rec, "type") = parseTypeNode(element)

\* C26: for a tuple type node parseTypeNode returns kind "tuple" with an
\* elements list of the length and order of the written tuple, each element
\* carrying its name when it is named, its optional and rest flags, and its
\* normalized element type.
C26_TupleElementsDescribed ==
  TupleReturned =>
    /\ TupleElementsAligned
    /\ \A i \in DOMAIN src[1].elements :
         DescribesElement(ret.v["elements"].v[i], src[1].elements[i])

\* what holds: the list is aligned with the written tuple, and each element
\* is what parseTypeNode returns for the element node itself
C26_TupleElementsNormalized ==
  TupleReturned =>
    /\ TupleElementsAligned
    /\ \A i \in DOMAIN src[1].elements :
         O(ret.v["elements"].v[i]) = parseTypeNode(src[1].elements[i])

-----------------------------------------------------------------------------
(* Properties of the recursion *)

\* the written nesting depth of a type node: a node without operands has
\* depth 1, and so has the absent operand of a node
RECURSIVE typeDepth(_)
typeDepth(node) ==
  IF ~Has(node) THEN 1
  ELSE LET below == { typeDepth(operands(node)[i]) :
                        i \in DOMAIN operands(node) }
       IN 1 + (IF below = {} THEN 0
               ELSE CHOOSE d \in below : \A e \in below : e <= d)

\* the written nesting depth of the namespaces of a unit: a unit none of
\* whose namespaces has a statement in its body has depth 1
RECURSIVE namespaceDepth(_)
namespaceDepth(unit) ==
  LET namespaces == { i \in DOMAIN unit : unit[i].kind = "ModuleDeclaration" }
      below == UNION { { namespaceDepth(<< unit[i].body[j] >>) :
                           j \in DOMAIN unit[i].body } : i \in namespaces }
  IN 1 + (IF below = {} THEN 0
          ELSE CHOOSE d \in below : \A e \in below : e <= d)

\* the call stack[k] was made on a strict sub-node of the argument of the
\* call that made it: parseTypeNode on a node whose text is a proper part of
\* the text of the node above, parseWithTsMorph on the source file of one
\* statement of the body of a namespace of the unit above
OnStrictSubNode(k) ==
  LET made == stack[k]
      by == stack[k - 1]
  IN IF made.fn = "parseTypeNode"
       THEN /\ by.fn = "parseTypeNode"
            /\ Has(made.arg) => Len(made.arg.text) < Len(by.arg.text)
       ELSE /\ by.fn = "parseWithTsMorph"
            /\ Len(made.arg) = 1
            /\ \E i \in DOMAIN by.arg :
                 /\ by.arg[i].kind = "ModuleDeclaration"
                 /\ \E j \in DOMAIN by.arg[i].body :
                      made.arg = reparse(by.arg[i].body[j])
            /\ namespaceDepth(made.arg) < namespaceDepth(by.arg)

\* the calls in progress are no more than the written nesting depth of the
\* argument of the first
DepthBounded ==
  stack # <<>> =>
    Len(stack) <= IF stack[1].fn = "parseTypeNode"
                    THEN typeDepth(stack[1].arg)
                    ELSE namespaceDepth(stack[1].arg)

\* C27: parseTypeNode terminates on every finite type tree without cycle
\* detection, each recursive call being made on a strict sub-node of the
\* current node and the depth of the recursion being at most the written
\* nesting depth; the namespace recursion of parseWithTsMorph terminates
\* likewise, each recursive call being made on a single statement of the
\* body of the enclosing namespace.
C27_RecursionTerminates ==
  /\ [](\A k \in 2..Len(stack) : OnStrictSubNode(k))
  /\ []DepthBounded
  /\ (pc = "call") ~> (pc \in {"returned", "thrown"})

\* a call of parseTypeNode three levels deep in a type expression
C27_Witness ==
  /\ pc = "call"
  /\ Len(stack) = 3
  /\ running.fn = "parseTypeNode"
  /\ Has(running.arg)

\* a call of parseWithTsMorph on a statement of a namespace within a
\* namespace
C27_WitnessNamespace ==
  /\ pc = "call"
  /\ Len(stack) = 3
  /\ running.fn = "parseWithTsMorph"

\* the first call has returned after calls three levels deep
C27_Terminated ==
  /\ pc = "returned"
  /\ stack = <<>>

-----------------------------------------------------------------------------
(* Properties of the projection of whole items *)

\* the key sets of the maps of the second pass, kind by kind
KindKeys ==
  { DOMAIN functionItemMap, DOMAIN variableItemMap,
    {"target", "typeParameters"}, {"const", "members"},
    {"items", "typeParameters"}, {"members", "typeParameters"}, {"members"} }

\* C28: whenever only-mode is on, whatever fields are marked "only", every
\* top-level item parseWithTsMorph returns is a record with no keys: the map
\* of the base attributes and the map of the kind, by which an item is pruned
\* in turn, have no key in common, and each pass deletes the keys of the
\* other.
C28_OnlyModeEmptiesItems ==
  /\ \A keys \in KindKeys : keys \cap DOMAIN baseItemMap = {}
  /\ (pc = "done" /\ onlyMode) => \A i \in DOMAIN out : DOMAIN out[i] = {}

\* a finished run in only-mode, Name and Type marked "only", with an item
C28_Witness ==
  /\ pc = "done"
  /\ onlyMode
  /\ options = Given([Name |-> "only", Type |-> "only"])
  /\ out # <<>>

\* C29: for every configuration and every item, of every kind and with every
\* member variant, the item parseWithTsMorph pushes to its output equals
\* applyParsedItemOptions of the item as built, before any pruning.
C29_InlinePruningIsOneApplication ==
  pc = "done" =>
    LET full == unprunedTree(src)
    IN /\ Len(out) = Len(full)
       /\ \A i \in DOMAIN full :
            out[i] = applyParsedItemOptions(full[i], opts, onlyMode)

\* what holds: the equality for the variable, function, type-alias, enum
\* and class items
C29_EqualForMemberwisePrunedKinds ==
  pc = "done" =>
    LET full == unprunedTree(src)
    IN /\ Len(out) = Len(full)
       /\ \A i \in DOMAIN full :
            Get(full[i], "type") \notin {S("interface"), S("namespace")} =>
              out[i] = applyParsedItemOptions(full[i], opts, onlyMode)

\* the keys of the parameter as built that are governed by a field marked
\* "only"
OnlyMarkedKeys(param) ==
  { key \in DOMAIN param \cap DOMAIN paramMap : opts[paramMap[key]] = "only" }

\* C30: whenever only-mode is on, every parameter record of a class method
\* or setter pruned by applyMethodItemOptions comes out with no keys,
\* whatever fields are marked "only"; the parameters of functions and of
\* interface methods, pruned by applyParamOptions alone, keep exactly their
\* keys marked "only".
C30_MethodParametersEmptied ==
  onlyMode =>
    /\ (pc = "applyMethodItemOptions.return" /\ "arguments" \in DOMAIN ret) =>
         \A i \in DOMAIN ret["arguments"].v :
           DOMAIN ret["arguments"].v[i] = {}
    /\ (pc = "applyInterfaceMemberMethodOptions.return"
          /\ "arguments" \in DOMAIN ret) =>
         /\ Len(ret["arguments"].v) = Len(src[1]["arguments"].v)
         /\ \A i \in DOMAIN ret["arguments"].v :
              DOMAIN ret["arguments"].v[i]
                = OnlyMarkedKeys(src[1]["arguments"].v[i])
    /\ pc = "applyParamOptions.return" =>
         DOMAIN ret = OnlyMarkedKeys(src[1])

\* a class method pruned with Name and Arguments marked "only": it keeps its
\* arguments, which were built with a name
C30_Witness ==
  /\ pc = "applyMethodItemOptions.return"
  /\ options = Given([Name |-> "only", Arguments |-> "only"])
  /\ "arguments" \in DOMAIN ret
  /\ ret["arguments"].v # <<>>
  /\ \A i \in DOMAIN src[1]["arguments"].v :
       "name" \in DOMAIN src[1]["arguments"].v[i]

\* an interface method pruned likewise, whose parameters keep their names
C30_WitnessInterface ==
  /\ pc = "applyInterfaceMemberMethodOptions.return"
  /\ options = Given([Name |-> "only", Arguments |-> "only"])
  /\ "arguments" \in DOMAIN ret
  /\ ret["arguments"].v # <<>>
  /\ \A i \in DOMAIN ret["arguments"].v :
       DOMAIN ret["arguments"].v[i] = {"name"}

====
